---- MODULE Spec2Model ----
(***************************************************************************)
(* Resumable evaluation runs of the drivelology benchmark: the four task   *)
(* entry points (detection, MCQA-easy, tagging, narrative), their retry    *)
(* functions, and the tab-separated record store they append to and patch. *)
(*                                                                         *)
(* Text is modelled as a sequence of tokens.  A token is one of the        *)
(* separator characters the code treats specially (tab, newline, carriage  *)
(* return, space, comma) or a word: a non-empty run of other characters.   *)
(* Adjacent word tokens concatenate.  A file is the sequence of tokens it  *)
(* holds, or NoFile when the path does not exist.                          *)
(***************************************************************************)
EXTENDS Integers, Sequences, FiniteSets, TLC

TAB == "\t"
NL == "\n"
CR == "\r"
SP == " "
COMMA == ","

\* the value of a path that does not exist (no file holds this one token)
NoFile == <<"<no file>">>
None == <<"None">>

(***************************************************************************)
(* Python string and file primitives used by the code.                     *)
(***************************************************************************)
Whitespace == {SP, TAB, NL, CR}

Range(s) == {s[k] : k \in DOMAIN s}

\* str.strip(): drop leading and trailing whitespace
RECURSIVE lstrip(_)
lstrip(s) ==
    IF s # <<>> /\ Head(s) \in Whitespace THEN lstrip(Tail(s)) ELSE s

RECURSIVE rstrip(_)
rstrip(s) ==
    IF s # <<>> /\ s[Len(s)] \in Whitespace
    THEN rstrip(SubSeq(s, 1, Len(s) - 1))
    ELSE s

strip(s) == rstrip(lstrip(s))

\* position of the first token of s that lies in set, 0 when there is none
RECURSIVE FindFrom(_, _, _)
FindFrom(s, set, k) ==
    IF k > Len(s) THEN 0
    ELSE IF s[k] \in set THEN k
    ELSE FindFrom(s, set, k + 1)

\* str.split(sep): always at least one part
RECURSIVE split(_, _)
split(s, sep) ==
    LET k == FindFrom(s, {sep}, 1)
    IN  IF k = 0 THEN <<s>>
        ELSE <<SubSeq(s, 1, k - 1)>> \o split(SubSeq(s, k + 1, Len(s)), sep)

\* sep.join(parts)
RECURSIVE join(_, _)
join(parts, sep) ==
    IF parts = <<>> THEN <<>>
    ELSE IF Len(parts) = 1 THEN parts[1]
    ELSE parts[1] \o sep \o join(Tail(parts), sep)

\* str.startswith(prefix)
startswith(s, prefix) ==
    /\ Len(prefix) <= Len(s)
    /\ SubSeq(s, 1, Len(prefix)) = prefix

\* str.lower() / str.upper() on the words of the model
lower(s) ==
    [k \in DOMAIN s |->
        IF s[k] = "WORDPLAY" THEN "wordplay"
        ELSE IF s[k] = "A" THEN "a" ELSE s[k]]

upper(s) ==
    [k \in DOMAIN s |->
        IF s[k] = "wordplay" THEN "WORDPLAY"
        ELSE IF s[k] = "a" THEN "A" ELSE s[k]]

\* re.sub(r'\s+', ' ', s): every run of whitespace becomes one space
RECURSIVE collapse_ws(_)
collapse_ws(s) ==
    IF s = <<>> THEN <<>>
    ELSE IF Head(s) \in Whitespace
         THEN <<SP>> \o collapse_ws(lstrip(s))
         ELSE <<Head(s)>> \o collapse_ws(Tail(s))

\* os.path.exists(path)
exists(file) == file # NoFile

\* the lines a text-mode read yields (universal newlines: "\n", "\r" and
\* "\r\n" all end a line and are handed over as "\n"; a last line without
\* terminator is handed over as it is)
RECURSIVE readlines(_)
readlines(content) ==
    IF content = <<>> THEN <<>>
    ELSE LET k == FindFrom(content, {NL, CR}, 1)
         IN  IF k = 0 THEN <<content>>
             ELSE LET last == IF content[k] = CR /\ k < Len(content)
                                 /\ content[k + 1] = NL
                              THEN k + 1 ELSE k
                  IN  <<SubSeq(content, 1, k - 1) \o <<NL>>>>
                      \o readlines(SubSeq(content, last + 1, Len(content)))

\* flatten a list of lines (f.writelines(lines))
RECURSIVE writelines(_)
writelines(lines) ==
    IF lines = <<>> THEN <<>> ELSE Head(lines) \o writelines(Tail(lines))

\* open(path, 'a'): the file is created empty when it is missing
open_append(file) == IF exists(file) THEN file ELSE <<>>

\* open(path, 'w'): the file is created or truncated
open_truncate(file) == <<>>


(***************************************************************************)
(* Bounds of the model.                                                    *)
(***************************************************************************)
\* samples in the dataset of a run
NumSamples == 2
\* invocations of an entry point (the first run and its restarts)
MaxRuns == 3
\* largest max_retries a retry function is called with, when it is called
\* on its own
MaxRetriesBound == 5

(***************************************************************************)
(* Tasks, retry functions and their constants.                             *)
(***************************************************************************)
Tasks == {"detection", "mcqa", "tagging", "narrative"}

\* detection/config.py: MAX_RETRIES
MAX_RETRIES == 5
\* max_retries defaults of the other retry functions
MCQA_MAX_RETRIES == 3
TAGGING_MAX_RETRIES == 3
NARRATIVE_MAX_RETRIES == 5
GEVAL_MAX_RETRIES == 5

CallFunctions ==
    {"classify_text", "mcqa_generate_prediction",
     "tagging_generate_prediction", "generate_narrative",
     "evaluate_with_geval"}

DefaultMaxRetries(f) ==
    CASE f = "classify_text" -> MAX_RETRIES
      [] f = "mcqa_generate_prediction" -> MCQA_MAX_RETRIES
      [] f = "tagging_generate_prediction" -> TAGGING_MAX_RETRIES
      [] f = "generate_narrative" -> NARRATIVE_MAX_RETRIES
      [] f = "evaluate_with_geval" -> GEVAL_MAX_RETRIES

\* the retry function a task calls first for a sample
FirstCall(t) ==
    CASE t = "detection" -> "classify_text"
      [] t = "mcqa" -> "mcqa_generate_prediction"
      [] t = "tagging" -> "tagging_generate_prediction"
      [] t = "narrative" -> "generate_narrative"

VALID_ANSWERS == {<<"Drivelology">>, <<"non-Drivelology">>}
MCQA_LETTERS == {<<"A">>, <<"B">>, <<"C">>, <<"D">>, <<"E">>}
ALL_CATEGORIES ==
    {<<"inversion">>, <<"misdirection">>, <<"paradox">>, <<"switchbait">>,
     <<"wordplay">>}

(***************************************************************************)
(* Datasets.  A sample carries the fields its task reads.  The two sample  *)
(* values of a task differ in id and text, so a dataset may hold the same  *)
(* sample twice; the second text carries a tab and a newline.              *)
(***************************************************************************)
Text1 == <<"t1">>
Text2 == <<"t2", TAB, "u", NL, "v">>

SampleValues(t) ==
    CASE t = "detection" ->
            {[text |-> Text1, label |-> 0], [text |-> Text2, label |-> 1]}
      [] t = "mcqa" ->
            {[id |-> <<"1">>, text |-> Text1, pos_en |-> <<"p">>,
              neg_en |-> <<<<"n1">>, <<"n2">>, <<"n3">>, <<"n4">>>>],
             [id |-> <<"2">>, text |-> Text2, pos_en |-> <<"p", NL, "q">>,
              neg_en |-> <<<<"n1">>, <<"n2">>, <<"n3">>, <<"n4">>>>]}
      [] t = "tagging" ->
            {[id |-> <<"0123456789abcdef">>, idlen |-> 16, text |-> Text1,
              taggings |-> <<<<"inversion">>, <<"wordplay">>>>],
             [id |-> <<"7">>, idlen |-> 1, text |-> Text2,
              taggings |-> <<<<"paradox">>>>]}
      [] t = "narrative" ->
            {[id |-> <<"1">>, text |-> Text1, pos_en |-> <<"ref1">>],
             [id |-> <<"2">>, text |-> Text2, pos_en |-> <<"ref", TAB, "2">>]}

Datasets(t) == [1..NumSamples -> SampleValues(t)]

(***************************************************************************)
(* Ids and the dedup index.                                                *)
(***************************************************************************)
\* hashlib.sha256(text.encode()).hexdigest()[:16]: one word, the same for
\* the same text and different for the texts of the model
generate_id_from_text(text) ==
    IF text = Text1 THEN <<"h1">>
    ELSE IF text = Text2 THEN <<"h2">>
    ELSE <<"h3">>

\* the first tab-separated field of every line that is not blank
load_existing_ids(file) ==
    IF ~exists(file) THEN {}
    ELSE LET lines == readlines(file)
         IN  {split(strip(lines[k]), TAB)[1] :
                 k \in {j \in DOMAIN lines : strip(lines[j]) # <<>>}}

\* the id a task gives a sample
SampleId(t, sample) ==
    CASE t = "detection" -> generate_id_from_text(sample.text)
      [] t = "tagging" ->
            IF sample.id # <<>> /\ sample.idlen = 16 THEN sample.id
            ELSE generate_id_from_text(sample.text)
      [] OTHER -> sample.id

convert_label(label) ==
    IF label = 0 THEN <<"Drivelology">>
    ELSE IF label = 1 THEN <<"non-Drivelology">>
    ELSE <<"ValueError">>

\* str(text).replace('\n', ' ').replace('\r', ' ').replace('\t', ' ')
sanitize_text(text) ==
    [k \in DOMAIN text |-> IF text[k] \in {NL, CR, TAB} THEN SP ELSE text[k]]

\* str(text).replace('\n', ' ')
replace_newline(text) ==
    [k \in DOMAIN text |-> IF text[k] = NL THEN SP ELSE text[k]]

(***************************************************************************)
(* Appends of the three single-stage tasks: the line is built and written  *)
(* to the file opened in append mode.                                      *)
(***************************************************************************)
detection_line(text_id, text, reason, answer, prediction) ==
    join(<<text_id, sanitize_text(text), sanitize_text(reason), answer,
           prediction>>, <<TAB>>)

\* a faulty append, to test LineAtomicAppend: the line is written without
\* its terminator
save_resultUnterminated(file, text_id, text, reason, answer, prediction) ==
    open_append(file)
        \o detection_line(text_id, text, reason, answer, prediction)

detection_save_result(file, text_id, text, reason, answer, prediction) ==
    open_append(file)
        \o detection_line(text_id, text, reason, answer, prediction)
        \o <<NL>>

mcqa_line(data_row, options, answer, prediction) ==
    join(<<data_row.id, sanitize_text(data_row.text)>>
         \o [k \in 1..5 |-> sanitize_text(options[k])]
         \o <<answer, prediction>>, <<TAB>>)

save_result_easy(file, data_row, options, answer, prediction) ==
    open_append(file) \o mcqa_line(data_row, options, answer, prediction)
        \o <<NL>>

tagging_line(data_row, reason, answer, prediction) ==
    join(<<data_row.id, sanitize_text(data_row.text), sanitize_text(reason),
           answer, prediction>>, <<TAB>>)

tagging_save_result(file, data_row, reason, answer, prediction) ==
    open_append(file) \o tagging_line(data_row, reason, answer, prediction)
        \o <<NL>>

(***************************************************************************)
(* The backend and the retry functions.  One backend call either raises    *)
(* one of the two exceptions of the structured-output library or returns a *)
(* response that passed the schema of the function.                        *)
(***************************************************************************)
Exceptions == {"InstructorRetryException", "IncompleteOutputException"}

Raise(e) == [kind |-> e, answer |-> <<>>, reason |-> <<>>]
Response(a, r) == [kind |-> "response", answer |-> a, reason |-> r]

\* replies whose answer holds no field or line separator
BackendOutcomes(f) ==
    {Raise(e) : e \in Exceptions} \cup
    CASE f = "classify_text" ->
            {Response(<<"Drivelology">>, <<"r", NL, "s">>),
             Response(<<"maybe">>, <<"r">>)}
      [] f = "mcqa_generate_prediction" ->
            {Response(<<SP, "a">>, <<>>), Response(<<"F">>, <<>>)}
      [] f = "tagging_generate_prediction" ->
            {Response(<<"inversion", COMMA, SP, "WORDPLAY">>, <<"r", TAB>>),
             Response(<<"invention">>, <<"r">>)}
      [] f = "generate_narrative" ->
            {Response(<<SP, "c", NL, "d">>, <<>>), Response(<<SP>>, <<>>)}
      [] f = "evaluate_with_geval" ->
            {Response(<<"4">>, <<>>)}

\* replies whose answer or reason may hold separators
AnyBackendOutcomes(f) ==
    BackendOutcomes(f) \cup
    CASE f = "classify_text" ->
            {Response(<<"non-Drivelology">>, <<CR, "r", TAB>>)}
      [] f = "mcqa_generate_prediction" ->
            {Response(<<TAB, "a", NL>>, <<>>)}
      [] f = "tagging_generate_prediction" ->
            {Response(<<"paradox", NL>>, <<"r">>),
             Response(<<"inversion", COMMA, TAB, "wordplay">>, <<"r">>),
             Response(<<>>, <<"r">>),
             Response(<<"inversion", COMMA>>, <<"r">>)}
      [] f = "generate_narrative" ->
            {Response(<<"c", TAB, CR, "d", NL>>, <<>>)}
      [] f = "evaluate_with_geval" ->
            {Response(<<"7">>, <<>>)}

Returned(v) == [raised |-> "", value |-> v]
Raised(e) == [raised |-> e, value |-> <<>>]

\* tagging/models.py: every comma-separated item, trimmed and lower-cased,
\* is a category
validate_prediction(prediction) ==
    LET items == split(prediction, COMMA)
    IN  \A k \in DOMAIN items : lower(strip(items[k])) \in ALL_CATEGORIES

\* a faulty try block, to test RetrySuccess: classify_text accepts the
\* label "Drivelology" alone
TryBodyOneLabel(f, out) ==
    IF out.kind # "response" THEN Raised(out.kind)
    ELSE CASE f = "classify_text" ->
                IF out.answer # <<"Drivelology">> THEN Raised("ValueError")
                ELSE Returned(<<out.answer, out.reason>>)
           [] f = "mcqa_generate_prediction" ->
                LET prediction == upper(strip(out.answer))
                IN  IF prediction \notin MCQA_LETTERS
                    THEN Raised("ValueError")
                    ELSE Returned(prediction)
           [] f = "tagging_generate_prediction" ->
                IF ~validate_prediction(out.answer) THEN Raised("ValueError")
                ELSE Returned(<<out.answer, out.reason>>)
           [] f = "generate_narrative" ->
                LET narrative == collapse_ws(strip(out.answer))
                IN  IF narrative = <<>> THEN Raised("ValueError")
                    ELSE Returned(narrative)
           [] f = "evaluate_with_geval" -> Returned(out.answer)

\* a faulty try block, to test DomainValidation: the MCQA answer is returned
\* without the test against the letters A to E
TryBodyAnyLetter(f, out) ==
    IF out.kind # "response" THEN Raised(out.kind)
    ELSE CASE f = "classify_text" ->
                IF out.answer \notin VALID_ANSWERS THEN Raised("ValueError")
                ELSE Returned(<<out.answer, out.reason>>)
           [] f = "mcqa_generate_prediction" ->
                Returned(upper(strip(out.answer)))
           [] f = "tagging_generate_prediction" ->
                IF ~validate_prediction(out.answer) THEN Raised("ValueError")
                ELSE Returned(<<out.answer, out.reason>>)
           [] f = "generate_narrative" ->
                LET narrative == collapse_ws(strip(out.answer))
                IN  IF narrative = <<>> THEN Raised("ValueError")
                    ELSE Returned(narrative)
           [] f = "evaluate_with_geval" -> Returned(out.answer)

\* the body of the try block of each retry function on one backend outcome
TryBody(f, out) ==
    IF out.kind # "response" THEN Raised(out.kind)
    ELSE CASE f = "classify_text" ->
                IF out.answer \notin VALID_ANSWERS THEN Raised("ValueError")
                ELSE Returned(<<out.answer, out.reason>>)
           [] f = "mcqa_generate_prediction" ->
                LET prediction == upper(strip(out.answer))
                IN  IF prediction \notin MCQA_LETTERS
                    THEN Raised("ValueError")
                    ELSE Returned(prediction)
           [] f = "tagging_generate_prediction" ->
                IF ~validate_prediction(out.answer) THEN Raised("ValueError")
                ELSE Returned(<<out.answer, out.reason>>)
           [] f = "generate_narrative" ->
                LET narrative == collapse_ws(strip(out.answer))
                IN  IF narrative = <<>> THEN Raised("ValueError")
                    ELSE Returned(narrative)
           [] f = "evaluate_with_geval" -> Returned(out.answer)

\* the exceptions the except clause of every retry function catches
CaughtExceptions ==
    {"InstructorRetryException", "IncompleteOutputException", "ValueError"}

\* the value a retry function returns when it gives up
FailureValue(f) ==
    IF f \in {"classify_text", "tagging_generate_prediction"}
    THEN <<None, None>>
    ELSE None

\* a faulty test, to test RetryExhaustion: the retries end one call early
GivesUpEarly(f, count, maxr) ==
    IF f = "classify_text" THEN count + 1 >= maxr - 1
    ELSE count >= maxr - 2

\* the test that ends the retries after a caught exception: classify_text
\* counts the failure first and compares, the for loops test the index
GivesUp(f, count, maxr) ==
    IF f = "classify_text" THEN count + 1 >= maxr
    ELSE count = maxr - 1

\* a faulty test, to test RetriedInLaterRuns: every retry function logs
WritesErrorLogAlways(f) == f \in CallFunctions

\* MCQA and tagging log the sample that exhausted its retries
WritesErrorLog(f) ==
    f \in {"mcqa_generate_prediction", "tagging_generate_prediction"}

(***************************************************************************)
(* The narrative store: a header row, then one eight-column row per        *)
(* EvaluationResult.  An Optional field is None or the text of a number.   *)
(***************************************************************************)
HEADER ==
    join(<<<<"id">>, <<"text">>, <<"reference">>, <<"candidate">>,
           <<"geval_score">>, <<"bert_precision">>, <<"bert_recall">>,
           <<"bert_f1">>>>, <<TAB>>)

\* bertscore_batch_size of the narrative runs of the model
bertscore_batch_size == 2

\* words int() and float() accept
IntWords == {"4", "7"}
FloatWords == IntWords \cup {"0.9", "0.0"}

is_int(s) == Len(strip(s)) = 1 /\ strip(s)[1] \in IntWords
is_float(s) == Len(strip(s)) = 1 /\ strip(s)[1] \in FloatWords

EvaluationResult(id, text, reference, candidate, geval_score) ==
    [id |-> id, text |-> text, reference |-> reference,
     candidate |-> candidate, geval_score |-> geval_score,
     bert_precision |-> None, bert_recall |-> None, bert_f1 |-> None]

\* str(x) if x is not None else ''
opt_str(x) == IF x = None THEN <<>> ELSE x

result_row(result) ==
    join(<<result.id, sanitize_text(result.text),
           sanitize_text(result.reference), sanitize_text(result.candidate),
           opt_str(result.geval_score), opt_str(result.bert_precision),
           opt_str(result.bert_recall), opt_str(result.bert_f1)>>, <<TAB>>)

\* narrative/data.py append_result: mode 'w' and a header row first when
\* write_header, mode 'a' otherwise
append_result(file, result, write_header) ==
    (IF write_header THEN open_truncate(file) \o HEADER \o <<NL>>
     ELSE open_append(file))
        \o result_row(result) \o <<NL>>

\* one line of the store as an EvaluationResult (load_processed_results,
\* the body of the loop for a line with at least four parts)
parse_result(parts) ==
    LET base == EvaluationResult(parts[1], parts[2], parts[3], parts[4], None)
        g == IF Len(parts) >= 5 /\ strip(parts[5]) # <<>> /\ is_int(parts[5])
             THEN strip(parts[5]) ELSE None
        \* the three float() conversions share one try block: the first
        \* field that does not parse leaves the later ones unset
        ok6 == strip(parts[6]) = <<>> \/ is_float(parts[6])
        ok7 == strip(parts[7]) = <<>> \/ is_float(parts[7])
        ok8 == strip(parts[8]) = <<>> \/ is_float(parts[8])
        val(x) == IF strip(x) = <<>> THEN None ELSE strip(x)
    IN  IF Len(parts) < 8 THEN [base EXCEPT !.geval_score = g]
        ELSE [base EXCEPT
                !.geval_score = g,
                !.bert_precision = IF ok6 THEN val(parts[6]) ELSE None,
                !.bert_recall = IF ok6 /\ ok7 THEN val(parts[7]) ELSE None,
                !.bert_f1 = IF ok6 /\ ok7 /\ ok8 THEN val(parts[8]) ELSE None]

RECURSIVE parse_lines(_)
parse_lines(lines) ==
    IF lines = <<>> THEN <<>>
    ELSE LET parts == split(strip(Head(lines)), TAB)
         IN  (IF strip(Head(lines)) # <<>> /\ Len(parts) >= 4
              THEN <<parse_result(parts)>> ELSE <<>>)
             \o parse_lines(Tail(lines))

\* narrative/data.py load_processed_results: the first line is skipped as
\* the header; next(f) on an empty file raises StopIteration, which the
\* except clause turns into an empty result
load_processed_results(file) ==
    IF ~exists(file) THEN <<>>
    ELSE LET lines == readlines(file)
         IN  IF lines = <<>> THEN <<>> ELSE parse_lines(Tail(lines))

\* narrative/data.py get_processed_ids
get_processed_ids(file) ==
    IF ~exists(file) THEN {}
    ELSE LET lines == readlines(file)
         IN  IF lines = <<>> THEN {}
             ELSE {split(strip(lines[k]), TAB)[1] :
                     k \in {j \in 2..Len(lines) : strip(lines[j]) # <<>>}}

missing_bertscore(results) ==
    SelectSeq(results,
              LAMBDA r : r.bert_f1 = None \/ r.bert_precision = None
                         \/ r.bert_recall = None)

(***************************************************************************)
(* The patch of update_results_with_bertscore for one result.              *)
(***************************************************************************)
\* a faulty search, to test PatchExactId: the line only has to start with
\* the id
RECURSIVE find_linePrefix(_, _, _)
find_linePrefix(lines, id, j) ==
    IF j > Len(lines) THEN 0
    ELSE IF startswith(lines[j], id) THEN j
    ELSE find_linePrefix(lines, id, j + 1)

\* index of the first line that starts with the id and a tab, 0 if none
RECURSIVE find_line(_, _, _)
find_line(lines, id, j) ==
    IF j > Len(lines) THEN 0
    ELSE IF startswith(lines[j], id \o <<TAB>>) THEN j
    ELSE find_line(lines, id, j + 1)

\* while len(parts) < 8: parts.append('')
pad8(parts) ==
    parts \o [k \in 1..(IF Len(parts) < 8 THEN 8 - Len(parts) ELSE 0) |-> <<>>]

\* a faulty patch, to test PatchFrame: the scores are written from the
\* fifth column on
patched_lineShifted(line, result) ==
    LET parts == pad8(split(strip(line), TAB))
    IN  join([parts EXCEPT ![5] = result.bert_precision,
                           ![6] = result.bert_recall,
                           ![7] = result.bert_f1], <<TAB>>) \o <<NL>>

\* the row of the result with columns 6 to 8 set, padded to eight columns
patched_line(line, result) ==
    LET parts == pad8(split(strip(line), TAB))
    IN  join([parts EXCEPT ![6] = result.bert_precision,
                           ![7] = result.bert_recall,
                           ![8] = result.bert_f1], <<TAB>>) \o <<NL>>

\* the lines written back when the row of the result is found
patched_lines(lines, result) ==
    LET j == find_line(lines, result.id, 1)
    IN  [lines EXCEPT ![j] = patched_line(lines[j], result)]

\* the file after the patch of one result, taken as one step: a missing
\* file makes open() raise, which the except clause only logs
patch_result(file, result) ==
    IF ~exists(file) THEN file
    ELSE LET lines == readlines(file)
         IN  IF find_line(lines, result.id, 1) = 0
             THEN append_result(file, result, FALSE)
             ELSE writelines(patched_lines(lines, result))

with_scores(result, p, r, f) ==
    [result EXCEPT !.bert_precision = p, !.bert_recall = r, !.bert_f1 = f]

(***************************************************************************)
(* MCQA option preparation.                                                *)
(***************************************************************************)
\* outcomes of random.shuffle on the five options, as index permutations
Shuffles == {<<1, 2, 3, 4, 5>>, <<3, 1, 2, 5, 4>>}

LetterOf(idx) ==
    CASE idx = 1 -> <<"A">> [] idx = 2 -> <<"B">> [] idx = 3 -> <<"C">>
      [] idx = 4 -> <<"D">> [] idx = 5 -> <<"E">>

\* options.index(x): the first position holding x
RECURSIVE index_of(_, _, _)
index_of(options, x, k) ==
    IF options[k] = x THEN k ELSE index_of(options, x, k + 1)

\* a faulty preparation, to test OptionsKeepAnswer: the letter is that of
\* the positive narrative before the shuffle
prepare_options_easyUnshuffled(row, perm) ==
    LET all == <<row.pos_en>> \o row.neg_en
        options == [k \in 1..5 |-> all[perm[k]]]
    IN  [options |-> options,
         correct_answer |-> LetterOf(index_of(all, row.pos_en, 1))]

prepare_options_easy(row, perm) ==
    LET all == <<row.pos_en>> \o row.neg_en
        options == [k \in 1..5 |-> all[perm[k]]]
    IN  [options |-> options,
         correct_answer |-> LetterOf(index_of(options, row.pos_en, 1))]

(***************************************************************************)
(* The metrics aggregators: the store is read line by line, a line is      *)
(* stripped, and a line that is not empty and has the columns of its task  *)
(* gives its last two columns, the answer and the prediction.              *)
(***************************************************************************)
\* a faulty threshold, to test MetricsSkipMalformed: one column more is
\* asked of a line than its task writes
MIN_ITEMSTooMany(t) == IF t = "mcqa" THEN 10 ELSE 6

\* the fewest columns of a line the aggregator of a task counts
MIN_ITEMS(t) == IF t = "mcqa" THEN 8 ELSE 5

\* the (answer, prediction) pairs of the lines that are counted
metric_pairs(file, min_items) ==
    LET lines == readlines(file)
        items(k) == split(strip(lines[k]), TAB)
        counted == SelectSeq([k \in DOMAIN lines |-> k],
                             LAMBDA k : /\ strip(lines[k]) # <<>>
                                        /\ Len(items(k)) >= min_items)
    IN  [j \in DOMAIN counted |->
            <<items(counted[j])[Len(items(counted[j])) - 1],
              items(counted[j])[Len(items(counted[j]))]>>]

\* a faulty accuracy, to test DetectionAccuracy: the rows predicted
\* "Drivelology" are counted as correct
accuracy_scorePositives(pairs) ==
    <<Cardinality({k \in DOMAIN pairs : pairs[k][2] = <<"Drivelology">>}),
      Len(pairs)>>

\* metrics.accuracy_score(y_true, y_pred): the fraction of the pairs whose
\* two entries are equal, as <<numerator, denominator>>
accuracy_score(pairs) ==
    <<Cardinality({k \in DOMAIN pairs : pairs[k][1] = pairs[k][2]}),
      Len(pairs)>>

\* the dictionary evaluate_results returns for the pairs it read
metrics_report(pairs) ==
    IF pairs = <<>> THEN [error |-> "No valid results found"]
    ELSE [accuracy |-> accuracy_score(pairs), total_samples |-> Len(pairs)]

\* evaluate_results / calculate_metrics: open() raises for a missing file;
\* the pairs are returned, none of them being the "no valid data" report
evaluate_results(t, file) ==
    IF ~exists(file) THEN Raised("FileNotFoundError")
    ELSE LET pairs == metric_pairs(file, MIN_ITEMS(t))
         IN  [raised |-> "", value |-> pairs, report |-> metrics_report(pairs)]

\* tagging: the binary vector of a comma-separated list, as the set of the
\* categories whose entry is 1
category_vector(labels) ==
    LET list == split(labels, COMMA)
    IN  {cat \in ALL_CATEGORIES :
            \E k \in DOMAIN list : lower(strip(list[k])) = cat}

\* tagging: y_true and y_pred of calculate_metrics
tagging_vectors(file) ==
    LET pairs == metric_pairs(file, MIN_ITEMS("tagging"))
    IN  [j \in DOMAIN pairs |->
            [y_true |-> category_vector(pairs[j][1]),
             y_pred |-> category_vector(pairs[j][2])]]

(***************************************************************************)
(* State.                                                                  *)
(***************************************************************************)
VARIABLES
    task,          \* the entry point that is run
    dataset,       \* its samples, in order
    store,         \* the result file of the run's arguments
    errlog,        \* the lines of <store>.errors.log, each by its id
    pc,            \* position of the process; "idle" when none runs
    i,             \* index of the sample the loop is at
    exist_ids,     \* the in-memory dedup index (processed_ids)
    write_header,  \* narrative: the next append writes the header
    missing,       \* narrative: results_missing_bertscore
    mi,            \* narrative: start of the next batch of missing
    pending,       \* narrative: pending_bert_evaluation
    batch,         \* narrative: the results of the batch being scored
    bi,            \* narrative: index in batch of the result being patched
    bert,          \* narrative: the score of the batch
    plines,        \* narrative: the lines read for the patch, patched
    ret,           \* narrative: where the run continues after the batch
    cur,           \* what the run holds for the current sample
    fn,            \* the retry function being executed
    max_retries,   \* its max_retries argument
    retry_count,   \* its loop counter
    phase,         \* "calling" until it returns, then "returned"
    result,        \* its return value
    cur_id,        \* its text_id argument
    calls,         \* history: backend calls of this invocation
    last_out,      \* history: outcome of the last backend call
    run,           \* history: number of runs started
    status,        \* history: what became of each sample in this run
    sent,          \* history: samples sent to the backend in this run
    validated,     \* history: ids a validated response was obtained for
    appended,      \* history: ids of the records appended to the store
    nappend,       \* history: records appended in this run
    start_store,   \* history: the store when this run started
    prev,          \* history: how the run before this one ended
    eval_only,     \* argument --eval_only of the invocation
    prompt_version,     \* argument --prompt_version (--generation_version)
    evaluation_version, \* narrative: argument --evaluation_version
    op,            \* store operations on their own: the last operation
    op_arg,        \* its record
    before,        \* the file before it
    line,          \* the line it built, for an append
    nops,          \* the number of operations so far
    procs          \* concurrent runs on one store: the state of each run

argv == <<task, dataset, prompt_version, evaluation_version>>
files == <<store, errlog>>
narr == <<write_header, missing, mi, pending, batch, bi, bert, plines, ret>>
loopv == <<pc, i, exist_ids, cur>>
callv == <<fn, max_retries, retry_count, phase, result, cur_id, calls,
           last_out>>
hist == <<run, status, sent, validated, appended, nappend, start_store, prev,
          eval_only>>
opv == <<op, op_arg, before, line, nops, procs>>
vars == <<argv, files, narr, loopv, callv, hist, opv>>

NoCall ==
    /\ fn = "none" /\ max_retries = 0 /\ retry_count = 0
    /\ phase = "none" /\ result = None /\ cur_id = <<>>
    /\ calls = 0 /\ last_out = Raise("none")

NoOp ==
    /\ op = "none" /\ op_arg = <<>> /\ before = NoFile /\ line = <<>>
    /\ nops = 0 /\ procs = <<>>

NoBatch ==
    /\ batch = <<>> /\ bi = 0 /\ bert = None /\ plines = <<>> /\ ret = "none"

Init ==
    /\ task \in Tasks
    /\ dataset \in Datasets(task)
    /\ store = NoFile
    /\ errlog = <<>>
    /\ pc = "idle" /\ i = 0 /\ exist_ids = {} /\ cur = <<>>
    /\ write_header = FALSE /\ missing = <<>> /\ mi = 0 /\ pending = <<>>
    /\ NoBatch
    /\ NoCall
    /\ run = 0
    /\ status = [p \in 1..NumSamples |-> "pending"]
    /\ sent = {}
    /\ validated = {}
    /\ appended = {}
    /\ nappend = 0
    /\ start_store = NoFile
    /\ prev = "none"
    /\ eval_only = FALSE
    /\ prompt_version = "v1_en" /\ evaluation_version = "v1_en"
    /\ NoOp

(***************************************************************************)
(* The retry functions, one loop iteration per step.                       *)
(***************************************************************************)
ResetCall ==
    /\ fn' = "none" /\ max_retries' = 0 /\ retry_count' = 0
    /\ phase' = "none" /\ result' = None /\ cur_id' = <<>>
    /\ calls' = 0 /\ last_out' = Raise("none")

BeginCall(f, id) ==
    /\ fn' = f /\ max_retries' = DefaultMaxRetries(f) /\ retry_count' = 0
    /\ phase' = "calling" /\ result' = None /\ cur_id' = id
    /\ calls' = 0 /\ last_out' = Raise("none")

\* one iteration: the backend is called; a response that passes the checks
\* of the function is returned, a caught exception is counted and either
\* ends the retries with the failure value or leads to the next iteration
CallStep(outcomes) ==
    /\ phase = "calling"
    /\ retry_count < max_retries
    /\ \E out \in outcomes :
          LET r == TryBody(fn, out)
          IN  /\ last_out' = out
              /\ calls' = calls + 1
              /\ IF r.raised = ""
                 THEN /\ phase' = "returned"
                      /\ result' = r.value
                      /\ UNCHANGED <<retry_count, errlog>>
                 ELSE IF GivesUp(fn, retry_count, max_retries)
                 THEN /\ phase' = "returned"
                      /\ result' = FailureValue(fn)
                      /\ retry_count' =
                            IF fn = "classify_text" THEN retry_count + 1
                            ELSE retry_count
                      /\ errlog' = IF WritesErrorLog(fn)
                                   THEN Append(errlog, cur_id)
                                   ELSE errlog
                 ELSE /\ retry_count' = retry_count + 1
                      /\ UNCHANGED <<phase, result, errlog>>
    /\ sent' = IF pc = "call" THEN sent \cup {i} ELSE sent
    /\ UNCHANGED <<opv, argv, store, narr, loopv, fn, max_retries, cur_id, run,
                   status, validated, appended, nappend, start_store, prev,
                   eval_only>>

CallAttempt == CallStep(BackendOutcomes(fn))

\* the loop ends without an iteration left: the trailing return of the
\* failure value
CallLoopEnd ==
    /\ phase = "calling"
    /\ retry_count >= max_retries
    /\ phase' = "returned"
    /\ result' = FailureValue(fn)
    /\ UNCHANGED <<opv, argv, files, narr, loopv, fn, max_retries, retry_count,
                   cur_id, calls, last_out, hist>>

(***************************************************************************)
(* A run of an entry point.                                                *)
(***************************************************************************)
\* main() up to the sample loop: the dedup index is built from the store
StartPipeline ==
    /\ pc \in {"idle", "done", "crashed", "error"}
    /\ run < MaxRuns
    /\ run' = run + 1
    /\ IF task = "narrative"
       THEN LET existing_results == load_processed_results(store)
            IN  /\ exist_ids' = {existing_results[k].id :
                                    k \in DOMAIN existing_results}
                /\ missing' = missing_bertscore(existing_results)
                /\ write_header' = ~exists(store)
       ELSE /\ exist_ids' = load_existing_ids(store)
            /\ UNCHANGED <<missing, write_header>>
    /\ pc' = "loop" /\ i' = 1 /\ cur' = <<>>
    /\ mi' = 1 /\ pending' = <<>>
    /\ status' = [p \in 1..NumSamples |-> "pending"]
    /\ sent' = {} /\ nappend' = 0
    /\ start_store' = store
    /\ prev' = IF run = 0 THEN "none"
               ELSE IF pc = "idle" THEN "killed"
               ELSE IF \E p \in 1..NumSamples : status[p] = "failed"
               THEN "partial"
               ELSE "complete"
    /\ UNCHANGED <<opv, argv, files, batch, bi, bert, plines, ret, callv,
                   validated, appended>>

\* an invocation without --eval_only and with a registered version
StartRun ==
    /\ StartPipeline
    /\ eval_only' = FALSE

\* the sample loop is over
LoopEnd ==
    /\ pc = "loop"
    /\ i > NumSamples
    /\ pc' = IF task = "narrative" THEN "rest" ELSE "metrics"
    /\ UNCHANGED <<opv, argv, files, narr, i, exist_ids, cur, callv, hist>>

\* a sample whose id is in the dedup index is skipped
SkipSample ==
    /\ pc = "loop"
    /\ i <= NumSamples
    /\ SampleId(task, dataset[i]) \in exist_ids
    /\ i' = i + 1
    /\ status' = [status EXCEPT ![i] = "skipped"]
    /\ UNCHANGED <<opv, argv, files, narr, pc, exist_ids, cur, callv, run, sent,
                   validated, appended, nappend, start_store, prev,
                   eval_only>>

\* the prompt of a new sample is prepared and the retry function entered
BeginSample ==
    /\ pc = "loop"
    /\ i <= NumSamples
    /\ SampleId(task, dataset[i]) \notin exist_ids
    /\ task = "detection" => dataset[i].label \in {0, 1}
    /\ IF task = "mcqa"
       THEN \E perm \in Shuffles :
               cur' = prepare_options_easy(dataset[i], perm)
       ELSE cur' = <<>>
    /\ BeginCall(FirstCall(task), SampleId(task, dataset[i]))
    /\ pc' = "call"
    /\ UNCHANGED <<opv, argv, files, narr, i, exist_ids, hist>>

\* a faulty failure branch, to test FailedNotStored: the sample that failed
\* is recorded with an empty prediction
SampleFailedRecorded ==
    /\ pc = "call"
    /\ phase = "returned"
    /\ fn # "evaluate_with_geval"
    /\ result = FailureValue(fn)
    /\ pc' = "loop"
    /\ i' = i + 1
    /\ cur' = <<>>
    /\ status' = [status EXCEPT ![i] = "failed"]
    /\ store' = open_append(store) \o cur_id \o <<TAB, NL>>
    /\ ResetCall
    /\ UNCHANGED <<opv, argv, errlog, narr, exist_ids, run, sent, validated,
                   appended, nappend, start_store, prev,
                   eval_only>>

\* the retry function returned the failure value: the sample is skipped
SampleFailed ==
    /\ pc = "call"
    /\ phase = "returned"
    /\ fn # "evaluate_with_geval"
    /\ result = FailureValue(fn)
    /\ pc' = "loop"
    /\ i' = i + 1
    /\ cur' = <<>>
    /\ status' = [status EXCEPT ![i] = "failed"]
    /\ ResetCall
    /\ UNCHANGED <<opv, argv, files, narr, exist_ids, run, sent, validated,
                   appended, nappend, start_store, prev,
                   eval_only>>

\* narrative: the candidate was generated, the judge is called
BeginJudge ==
    /\ pc = "call"
    /\ phase = "returned"
    /\ fn = "generate_narrative"
    /\ result # None
    /\ cur' = result
    /\ BeginCall("evaluate_with_geval", cur_id)
    /\ validated' = validated \cup {cur_id}
    /\ UNCHANGED <<opv, argv, files, narr, pc, i, exist_ids, run, status, sent,
                   appended, nappend, start_store, prev,
                   eval_only>>

\* the record of the sample is ready: the store is opened for the append
OpenStore ==
    /\ pc = "call"
    /\ phase = "returned"
    /\ \/ /\ fn \in {"classify_text", "mcqa_generate_prediction",
                     "tagging_generate_prediction"}
          /\ result # FailureValue(fn)
          /\ cur' = [args |-> cur, result |-> result]
          /\ validated' = validated \cup {cur_id}
          /\ store' = open_append(store)
          /\ UNCHANGED <<exist_ids, pending>>
       \/ /\ fn = "evaluate_with_geval"
          /\ LET sample == dataset[i]
                 r == EvaluationResult(cur_id,
                                       replace_newline(sample.text),
                                       sample.pos_en, cur, result)
             IN  /\ cur' = r
                 /\ pending' = Append(pending, r)
          /\ exist_ids' = exist_ids \cup {cur_id}
          /\ store' = IF write_header THEN open_truncate(store)
                      ELSE open_append(store)
          /\ UNCHANGED validated
    /\ pc' = "write"
    /\ ResetCall
    /\ UNCHANGED <<opv, argv, errlog, write_header, missing, mi, batch, bi, bert,
                   plines, ret, i, run, status, sent, appended, nappend,
                   start_store, prev,
                   eval_only>>

\* the line of the record is written and the file closed
WriteRecord ==
    /\ pc = "write"
    /\ LET sample == dataset[i]
           id == SampleId(task, sample)
       IN  /\ store' =
                CASE task = "detection" ->
                        detection_save_result(store, id, sample.text,
                            cur.result[2], convert_label(sample.label),
                            cur.result[1])
                  [] task = "mcqa" ->
                        save_result_easy(store, sample, cur.args.options,
                            cur.args.correct_answer, cur.result)
                  [] task = "tagging" ->
                        tagging_save_result(store,
                            [id |-> id, text |-> sanitize_text(sample.text)],
                            cur.result[2],
                            join(sample.taggings, <<COMMA, SP>>),
                            cur.result[1])
                  [] task = "narrative" ->
                        append_result(store, cur, write_header)
           /\ appended' = appended \cup {id}
    /\ nappend' = nappend + 1
    /\ status' = [status EXCEPT ![i] = "written"]
    /\ i' = i + 1
    /\ cur' = <<>>
    /\ write_header' = FALSE
    /\ IF task = "narrative" /\ Len(pending) >= bertscore_batch_size
       THEN /\ batch' = pending /\ pending' = <<>>
            /\ pc' = "bert" /\ ret' = "loop"
       ELSE /\ pc' = "loop"
            /\ UNCHANGED <<batch, pending, ret>>
    /\ UNCHANGED <<opv, argv, errlog, missing, mi, bi, bert, plines, exist_ids,
                   callv, run, sent, validated, start_store, prev,
                   eval_only>>

\* a faulty flush, to test BatchDiscipline: the pending results are handed
\* to the scorer and kept
RestBatchKeeping ==
    /\ pc = "rest"
    /\ IF pending # <<>>
       THEN /\ batch' = pending /\ pending' = pending
            /\ pc' = "bert" /\ ret' = "missing"
       ELSE /\ pc' = "missing"
            /\ UNCHANGED <<batch, pending, ret>>
    /\ UNCHANGED <<opv, argv, files, write_header, missing, mi, bi, bert, plines,
                   i, exist_ids, cur, callv, hist>>

\* narrative, after the loop: the results still pending are scored
RestBatch ==
    /\ pc = "rest"
    /\ IF pending # <<>>
       THEN /\ batch' = pending /\ pending' = <<>>
            /\ pc' = "bert" /\ ret' = "missing"
       ELSE /\ pc' = "missing"
            /\ UNCHANGED <<batch, pending, ret>>
    /\ UNCHANGED <<opv, argv, files, write_header, missing, mi, bi, bert, plines,
                   i, exist_ids, cur, callv, hist>>

\* narrative: the next slice of the stored results that miss a score
MissingBatch ==
    /\ pc = "missing"
    /\ IF mi <= Len(missing)
       THEN /\ batch' = SubSeq(missing, mi,
                        IF mi + bertscore_batch_size - 1 <= Len(missing)
                        THEN mi + bertscore_batch_size - 1
                        ELSE Len(missing))
            /\ mi' = mi + bertscore_batch_size
            /\ pc' = "bert" /\ ret' = "missing"
       ELSE /\ pc' = "metrics"
            /\ UNCHANGED <<batch, mi, ret>>
    /\ UNCHANGED <<opv, argv, files, write_header, missing, pending, bi, bert,
                   plines, i, exist_ids, cur, callv, hist>>

\* evaluate_with_bertscore: one call for the batch; an exception of the
\* scorer is replaced by 0.0 for every result
BertScore ==
    /\ pc = "bert"
    /\ bert' \in {<<"0.9">>, <<"0.0">>}
    /\ bi' = 1
    /\ pc' = "patch"
    /\ UNCHANGED <<opv, argv, files, write_header, missing, mi, pending, batch,
                   plines, ret, i, exist_ids, cur, callv, hist>>

\* the batch is patched: back to the caller
BatchDone ==
    /\ pc = "patch"
    /\ bi > Len(batch)
    /\ pc' = ret
    /\ batch' = <<>> /\ bi' = 0 /\ bert' = None /\ ret' = "none"
    /\ UNCHANGED <<opv, argv, files, write_header, missing, mi, pending, plines,
                   i, exist_ids, cur, callv, hist>>

\* the file is read for the patch of one result; without its row the result
\* is appended, without the file the exception is logged
PatchRead ==
    /\ pc = "patch"
    /\ bi <= Len(batch)
    /\ LET r == with_scores(batch[bi], bert, bert, bert)
       IN  IF ~exists(store)
           THEN /\ bi' = bi + 1
                /\ UNCHANGED <<store, plines, pc, appended, nappend>>
           ELSE IF find_line(readlines(store), r.id, 1) = 0
           THEN /\ store' = append_result(store, r, FALSE)
                /\ appended' = appended \cup {r.id}
                /\ nappend' = nappend + 1
                /\ bi' = bi + 1
                /\ UNCHANGED <<plines, pc>>
           ELSE /\ plines' = patched_lines(readlines(store), r)
                /\ pc' = "patch_open"
                /\ UNCHANGED <<store, bi, appended, nappend>>
    /\ UNCHANGED <<opv, argv, errlog, write_header, missing, mi, pending, batch,
                   bert, ret, i, exist_ids, cur, callv, run, status, sent,
                   validated, start_store, prev,
                   eval_only>>

\* open(result_filepath, 'w') truncates the file
PatchOpen ==
    /\ pc = "patch_open"
    /\ store' = open_truncate(store)
    /\ pc' = "patch_write"
    /\ UNCHANGED <<opv, argv, errlog, narr, i, exist_ids, cur, callv, hist>>

\* f.writelines(lines)
PatchWrite ==
    /\ pc = "patch_write"
    /\ store' = store \o writelines(plines)
    /\ plines' = <<>>
    /\ bi' = bi + 1
    /\ pc' = "patch"
    /\ UNCHANGED <<opv, argv, errlog, write_header, missing, mi, pending, batch,
                   bert, ret, i, exist_ids, cur, callv, hist>>

\* the metrics of the store are reported; detection and MCQA open the file
\* without a test that it exists
Metrics ==
    /\ pc = "metrics"
    /\ pc' = IF task \in {"detection", "mcqa"} /\ ~exists(store)
             THEN "crashed" ELSE "done"
    /\ UNCHANGED <<opv, argv, files, narr, i, exist_ids, cur, callv, hist>>

\* the process is killed: what it held in memory is lost
Kill ==
    /\ pc \in {"loop", "call", "write", "rest", "missing", "bert", "patch",
               "patch_open", "patch_write", "metrics"}
    /\ pc' = "idle" /\ i' = 0 /\ exist_ids' = {} /\ cur' = <<>>
    /\ write_header' = FALSE /\ missing' = <<>> /\ mi' = 0 /\ pending' = <<>>
    /\ batch' = <<>> /\ bi' = 0 /\ bert' = None /\ plines' = <<>>
    /\ ret' = "none"
    /\ ResetCall
    /\ status' = [p \in 1..NumSamples |-> "pending"]
    /\ sent' = {} /\ nappend' = 0
    /\ UNCHANGED <<opv, argv, files, run, validated, appended, start_store,
                   prev,
                   eval_only>>

Next ==
    \/ StartRun \/ LoopEnd \/ SkipSample \/ BeginSample
    \/ CallAttempt \/ SampleFailed \/ BeginJudge
    \/ OpenStore \/ WriteRecord
    \/ RestBatch \/ MissingBatch \/ BertScore \/ BatchDone
    \/ PatchRead \/ PatchOpen \/ PatchWrite
    \/ Metrics \/ Kill

Spec == Init /\ [][Next]_vars

(***************************************************************************)
(* The entry points with their arguments: every invocation chooses         *)
(* --eval_only, the versions are those of the configuration of the runs.   *)
(***************************************************************************)
\* the keys of PROMPT_TEMPLATES / PROMPT_CONFIGS / PROMPT_CONFIGS_EASY and
\* the generation versions of the PromptManager
PROMPT_TEMPLATES ==
    {"v1_en", "v2_en", "v3_en", "v1_zh_tw", "v2_zh_tw", "v3_zh_tw"}

\* the evaluation versions of the PromptManager
EVALUATION_PROMPTS == {"v1_en", "v1_zh_tw"}

\* PromptManager.get_prompt finds both templates
get_prompt_found ==
    /\ prompt_version \in PROMPT_TEMPLATES
    /\ evaluation_version \in EVALUATION_PROMPTS

InitMain ==
    /\ task \in Tasks
    /\ dataset \in Datasets(task)
    /\ prompt_version \in {"v1_en", "v9_en"}
    /\ evaluation_version \in
          IF task = "narrative" /\ prompt_version = "v1_en"
          THEN {"v1_en", "v2_en"} ELSE {"v1_en"}
    /\ eval_only = FALSE
    /\ store = NoFile
    /\ errlog = <<>>
    /\ pc = "idle" /\ i = 0 /\ exist_ids = {} /\ cur = <<>>
    /\ write_header = FALSE /\ missing = <<>> /\ mi = 0 /\ pending = <<>>
    /\ NoBatch
    /\ NoCall
    /\ run = 0
    /\ status = [p \in 1..NumSamples |-> "pending"]
    /\ sent = {} /\ validated = {} /\ appended = {} /\ nappend = 0
    /\ start_store = NoFile
    /\ prev = "none"
    /\ NoOp

\* the invocation leaves main() for position p without entering the loop
Enter(p) ==
    /\ pc' = p
    /\ run' = run + 1
    /\ i' = 0 /\ exist_ids' = {} /\ cur' = <<>>
    /\ status' = [q \in 1..NumSamples |-> "pending"]
    /\ sent' = {} /\ nappend' = 0
    /\ start_store' = store
    /\ UNCHANGED <<opv, argv, files, write_header, pending, batch, bi, bert,
                   plines, ret, callv, validated, appended, prev>>

\* main() of an entry point up to the sample loop
main ==
    /\ pc \in {"idle", "done", "crashed", "error"}
    /\ run < MaxRuns
    /\ \E e \in BOOLEAN :
          /\ eval_only' = e
          /\ IF task # "narrative"
             THEN \* the version is looked up first
                  IF prompt_version \notin PROMPT_TEMPLATES
                  THEN Enter("error") /\ UNCHANGED <<missing, mi>>
                  ELSE IF e /\ exists(store)
                  THEN Enter("metrics") /\ UNCHANGED <<missing, mi>>
                  ELSE StartPipeline
             ELSE IF e
                  THEN \* the eval-only branch looks up no template
                       IF exists(store)
                       THEN /\ Enter("missing")
                            /\ missing' = missing_bertscore(
                                              load_processed_results(store))
                            /\ mi' = 1
                       ELSE Enter("done") /\ UNCHANGED <<missing, mi>>
                  ELSE \* run_evaluation_pipeline: the store is loaded, then
                       \* the templates are looked up
                       IF ~get_prompt_found
                       THEN Enter("error") /\ UNCHANGED <<missing, mi>>
                       ELSE StartPipeline

NextMain ==
    \/ main \/ LoopEnd \/ SkipSample \/ BeginSample
    \/ CallAttempt \/ SampleFailed \/ BeginJudge
    \/ OpenStore \/ WriteRecord
    \/ RestBatch \/ MissingBatch \/ BertScore \/ BatchDone
    \/ PatchRead \/ PatchOpen \/ PatchWrite
    \/ Metrics \/ Kill

SpecMain == InitMain /\ [][NextMain]_vars

(***************************************************************************)
(* A retry function called on its own: any max_retries up to the bound,    *)
(* any backend outcome at each call.                                       *)
(***************************************************************************)
InitCall ==
    /\ task = "detection"
    /\ dataset = [p \in 1..NumSamples |-> [text |-> Text1, label |-> 0]]
    /\ store = NoFile
    /\ errlog = <<>>
    /\ pc = "fn" /\ i = 0 /\ exist_ids = {} /\ cur = <<>>
    /\ write_header = FALSE /\ missing = <<>> /\ mi = 0 /\ pending = <<>>
    /\ NoBatch
    /\ fn \in CallFunctions
    /\ max_retries \in 0..MaxRetriesBound
    /\ retry_count = 0 /\ phase = "calling" /\ result = None
    /\ cur_id = <<"1">> /\ calls = 0 /\ last_out = Raise("none")
    /\ run = 0
    /\ status = [p \in 1..NumSamples |-> "pending"]
    /\ sent = {} /\ validated = {} /\ appended = {} /\ nappend = 0
    /\ start_store = NoFile
    /\ prev = "none"
    /\ eval_only = FALSE
    /\ prompt_version = "v1_en" /\ evaluation_version = "v1_en"
    /\ NoOp

AnyCallAttempt == CallStep(AnyBackendOutcomes(fn))

NextCall == AnyCallAttempt \/ CallLoopEnd

SpecCall == InitCall /\ [][NextCall]_vars

(***************************************************************************)
(* The store operations on their own: appends as the runs make them, with  *)
(* any sample and any response the retry function returns, and patches of  *)
(* any result.                                                             *)
(***************************************************************************)
\* operations applied to one store
MaxOps == 3

InitStore ==
    /\ task \in Tasks
    /\ dataset \in Datasets(task)
    /\ store \in {NoFile, <<>>}
    /\ errlog = <<>>
    /\ pc = "store" /\ i = 0 /\ exist_ids = {} /\ cur = <<>>
    /\ write_header = FALSE /\ missing = <<>> /\ mi = 0 /\ pending = <<>>
    /\ NoBatch
    /\ NoCall
    /\ run = 0
    /\ status = [p \in 1..NumSamples |-> "pending"]
    /\ sent = {} /\ validated = {} /\ appended = {} /\ nappend = 0
    /\ start_store = NoFile
    /\ prev = "none"
    /\ eval_only = FALSE
    /\ prompt_version = "v1_en" /\ evaluation_version = "v1_en"
    /\ NoOp

\* the values the retry function of a task can return for a sample
ReturnValues(f) ==
    {TryBody(f, out).value :
        out \in {o \in AnyBackendOutcomes(f) : TryBody(f, o).raised = ""}}

\* the line a run of the task appends for a sample and the values returned
RecordLine(t, sample, value, perm, score) ==
    CASE t = "detection" ->
            detection_line(SampleId(t, sample), sample.text, value[2],
                           convert_label(sample.label), value[1])
      [] t = "mcqa" ->
            LET o == prepare_options_easy(sample, perm)
            IN  mcqa_line(sample, o.options, o.correct_answer, value)
      [] t = "tagging" ->
            tagging_line([id |-> SampleId(t, sample),
                          text |-> sanitize_text(sample.text)],
                         value[2], join(sample.taggings, <<COMMA, SP>>),
                         value[1])
      [] t = "narrative" ->
            result_row(EvaluationResult(SampleId(t, sample),
                           replace_newline(sample.text), sample.pos_en,
                           value, score))

StoreAppend ==
    /\ pc = "store"
    /\ nops < MaxOps
    /\ \E sample \in SampleValues(task),
          value \in ReturnValues(FirstCall(task)),
          perm \in Shuffles,
          score \in IF task = "narrative"
                    THEN {None} \cup ReturnValues("evaluate_with_geval")
                    ELSE {None} :
          LET l == RecordLine(task, sample, value, perm, score)
          IN  /\ line' = l
              /\ op_arg' = IF task = "narrative"
                           THEN EvaluationResult(SampleId(task, sample),
                                    replace_newline(sample.text),
                                    sample.pos_en, value, score)
                           ELSE value
              /\ store' = (IF task = "narrative" /\ ~exists(store)
                           THEN open_truncate(store) \o HEADER \o <<NL>>
                           ELSE open_append(store)) \o l \o <<NL>>
    /\ op' = "append"
    /\ before' = store
    /\ nops' = nops + 1
    /\ UNCHANGED <<argv, errlog, narr, loopv, callv, hist, procs>>

\* results a batch may hold: those of the store, and one of no row
PatchArguments ==
    LET stored == load_processed_results(store)
    IN  {stored[k] : k \in DOMAIN stored} \cup
        {EvaluationResult(<<"3">>, Text1, <<"ref3">>, <<"c">>, None)}

StorePatch ==
    /\ pc = "store"
    /\ task = "narrative"
    /\ nops < MaxOps
    /\ \E r \in PatchArguments, b \in {<<"0.9">>, <<"0.0">>} :
          /\ op_arg' = with_scores(r, b, b, b)
          /\ store' = patch_result(store, with_scores(r, b, b, b))
    /\ op' = "patch"
    /\ before' = store
    /\ line' = <<>>
    /\ nops' = nops + 1
    /\ UNCHANGED <<argv, errlog, narr, loopv, callv, hist, procs>>

NextStore == StoreAppend \/ StorePatch

SpecStore == InitStore /\ [][NextStore]_vars

(***************************************************************************)
(* The metrics aggregators on their own, on store files that hold rows as  *)
(* the runs write them, rows cut short, empty lines and blank lines.       *)
(***************************************************************************)
\* lines of a store file
MaxLines == 3

\* the rows a run of the task can append
FullRows(t) ==
    {RecordLine(t, sample, value, perm, None) :
        sample \in SampleValues(t), value \in ReturnValues(FirstCall(t)),
        perm \in Shuffles}

\* a row that lost its last columns: one column less than the aggregator
\* asks for
CutRow(t, row) ==
    join(SubSeq(split(row, TAB), 1, MIN_ITEMS(t) - 1), <<TAB>>)

LineKinds(t) ==
    FullRows(t) \cup {CutRow(t, row) : row \in FullRows(t)}
        \cup {<<>>, <<SP>>}

StoreFiles(t) ==
    {NoFile} \cup
    UNION {{writelines([k \in 1..n |-> lines[k] \o <<NL>>]) :
               lines \in [1..n -> LineKinds(t)]} : n \in 0..MaxLines}

InitMetrics ==
    /\ task \in {"detection", "mcqa", "tagging"}
    /\ dataset = [p \in 1..NumSamples |-> CHOOSE v \in SampleValues(task) :
                                             v.text = Text1]
    /\ store \in StoreFiles(task)
    /\ errlog = <<>>
    /\ pc = "report" /\ i = 0 /\ exist_ids = {} /\ cur = <<>>
    /\ write_header = FALSE /\ missing = <<>> /\ mi = 0 /\ pending = <<>>
    /\ NoBatch
    /\ NoCall
    /\ run = 0
    /\ status = [p \in 1..NumSamples |-> "pending"]
    /\ sent = {} /\ validated = {} /\ appended = {} /\ nappend = 0
    /\ start_store = NoFile
    /\ prev = "none"
    /\ eval_only = FALSE
    /\ prompt_version = "v1_en" /\ evaluation_version = "v1_en"
    /\ NoOp

\* the aggregator of the task is applied to the store
calculate_metrics ==
    /\ pc = "report"
    /\ op = "none"
    /\ op' = "metrics"
    /\ op_arg' = evaluate_results(task, store)
    /\ before' = store
    /\ line' = <<>>
    /\ nops' = nops + 1
    /\ UNCHANGED <<argv, files, narr, loopv, callv, hist, procs>>

NextMetrics == calculate_metrics

SpecMetrics == InitMetrics /\ [][NextMetrics]_vars

(***************************************************************************)
(* Two runs of one entry point on the same output path.  Each run holds    *)
(* its own dedup index, pending list and file lines; the store is the only *)
(* thing they share, and nothing locks it.  The backend answers every call *)
(* and the scorer every batch, so a step of a run is a file access or the  *)
(* work between two of them.                                               *)
(***************************************************************************)
Procs == {1, 2}

IdleProc ==
    [pc |-> "idle", i |-> 0, ids |-> {}, wh |-> FALSE, missing |-> <<>>,
     mi |-> 0, pending |-> <<>>, todo |-> <<>>, bi |-> 0, plines |-> <<>>,
     ret |-> "none", rec |-> <<>>, overwritten |-> NoFile]

InitShared ==
    /\ task \in {"detection", "narrative"}
    /\ dataset \in Datasets(task)
    /\ store = NoFile
    /\ errlog = <<>>
    /\ pc = "shared" /\ i = 0 /\ exist_ids = {} /\ cur = <<>>
    /\ write_header = FALSE /\ missing = <<>> /\ mi = 0 /\ pending = <<>>
    /\ NoBatch
    /\ NoCall
    /\ run = 0
    /\ status = [p \in 1..NumSamples |-> "pending"]
    /\ sent = {} /\ validated = {} /\ appended = {} /\ nappend = 0
    /\ start_store = NoFile
    /\ prev = "none"
    /\ eval_only = FALSE
    /\ prompt_version = "v1_en" /\ evaluation_version = "v1_en"
    /\ op = "none" /\ op_arg = <<>> /\ before = NoFile /\ line = <<>>
    /\ nops = 0
    /\ procs = [q \in Procs |-> IdleProc]

\* what a run holds for a sample once the backend answered
SharedRecord(sample) ==
    IF task = "narrative"
    THEN EvaluationResult(SampleId(task, sample),
             replace_newline(sample.text), sample.pos_en, <<"c">>, <<"4">>)
    ELSE [id |-> SampleId(task, sample)]

SharedStep(q, changes) ==
    /\ pc = "shared"
    /\ procs' = [procs EXCEPT ![q] = changes]
    /\ UNCHANGED <<argv, errlog, narr, loopv, callv, hist, op, op_arg, before,
                   line, nops>>

\* the run starts: the dedup index is built from the store
ProcStart(q) ==
    /\ procs[q].pc = "idle"
    /\ LET existing_results == load_processed_results(store)
       IN  SharedStep(q, [procs[q] EXCEPT
              !.pc = "loop", !.i = 1,
              !.ids = IF task = "narrative"
                      THEN {existing_results[k].id :
                              k \in DOMAIN existing_results}
                      ELSE load_existing_ids(store),
              !.missing = IF task = "narrative"
                          THEN missing_bertscore(existing_results)
                          ELSE <<>>,
              !.mi = 1,
              !.wh = task = "narrative" /\ ~exists(store)])
    /\ UNCHANGED store

\* a sample whose id is in the dedup index of the run is skipped
ProcSkip(q) ==
    /\ procs[q].pc = "loop"
    /\ procs[q].i <= NumSamples
    /\ SampleId(task, dataset[procs[q].i]) \in procs[q].ids
    /\ SharedStep(q, [procs[q] EXCEPT !.i = @ + 1])
    /\ UNCHANGED store

\* the id passed the dedup test and the backend is called for the sample
ProcSample(q) ==
    /\ procs[q].pc = "loop"
    /\ procs[q].i <= NumSamples
    /\ SampleId(task, dataset[procs[q].i]) \notin procs[q].ids
    /\ LET r == SharedRecord(dataset[procs[q].i])
       IN  SharedStep(q, [procs[q] EXCEPT
              !.pc = "write", !.rec = r,
              !.ids = IF task = "narrative" THEN @ \cup {r.id} ELSE @,
              !.pending = IF task = "narrative" THEN Append(@, r) ELSE @])
    /\ UNCHANGED store

\* the record is appended; a full pending list is handed to the scorer
ProcAppend(q) ==
    /\ procs[q].pc = "write"
    /\ store' = IF task = "narrative"
                THEN append_result(store, procs[q].rec, procs[q].wh)
                ELSE open_append(store)
                       \o RecordLine(task, dataset[procs[q].i],
                              <<<<"Drivelology">>, <<"r">>>>, <<>>, None)
                       \o <<NL>>
    /\ LET full == task = "narrative"
                     /\ Len(procs[q].pending) >= bertscore_batch_size
       IN  SharedStep(q, [procs[q] EXCEPT
              !.i = @ + 1, !.rec = <<>>, !.wh = FALSE,
              !.pc = IF full THEN "patch" ELSE "loop",
              !.todo = IF full THEN procs[q].pending ELSE @,
              !.bi = IF full THEN 1 ELSE @,
              !.ret = IF full THEN "loop" ELSE @,
              !.pending = IF full THEN <<>> ELSE @])

\* the sample loop is over: the results still pending are scored
ProcLoopEnd(q) ==
    /\ procs[q].pc = "loop"
    /\ procs[q].i > NumSamples
    /\ SharedStep(q,
          IF task # "narrative" THEN [procs[q] EXCEPT !.pc = "done"]
          ELSE IF procs[q].pending # <<>>
          THEN [procs[q] EXCEPT !.pc = "patch", !.todo = procs[q].pending,
                                !.bi = 1, !.ret = "missing",
                                !.pending = <<>>]
          ELSE [procs[q] EXCEPT !.pc = "missing"])
    /\ UNCHANGED store

\* the next slice of the stored results that missed a score at the start
ProcMissing(q) ==
    /\ procs[q].pc = "missing"
    /\ LET m == procs[q].missing
           from == procs[q].mi
           to == IF from + bertscore_batch_size - 1 <= Len(m)
                 THEN from + bertscore_batch_size - 1 ELSE Len(m)
       IN  SharedStep(q,
              IF from <= Len(m)
              THEN [procs[q] EXCEPT !.pc = "patch", !.bi = 1,
                                    !.todo = SubSeq(m, from, to),
                                    !.mi = from + bertscore_batch_size,
                                    !.ret = "missing"]
              ELSE [procs[q] EXCEPT !.pc = "done"])
    /\ UNCHANGED store

\* the whole file is read for the patch of one result of the batch; without
\* its row the result is appended
ProcPatchRead(q) ==
    /\ procs[q].pc = "patch"
    /\ procs[q].bi <= Len(procs[q].todo)
    /\ LET r == with_scores(procs[q].todo[procs[q].bi],
                            <<"0.9">>, <<"0.9">>, <<"0.9">>)
       IN  IF ~exists(store)
           THEN /\ SharedStep(q, [procs[q] EXCEPT !.bi = @ + 1])
                /\ UNCHANGED store
           ELSE IF find_line(readlines(store), r.id, 1) = 0
           THEN /\ SharedStep(q, [procs[q] EXCEPT !.bi = @ + 1])
                /\ store' = append_result(store, r, FALSE)
           ELSE /\ SharedStep(q, [procs[q] EXCEPT
                      !.pc = "patch_write",
                      !.plines = patched_lines(readlines(store), r)])
                /\ UNCHANGED store

\* a rewrite that reads the file again, to test SharedStoreRaces: the lines
\* appended since the read are kept
ProcPatchWriteKeeping(q) ==
    /\ procs[q].pc = "patch_write"
    /\ store' = writelines(procs[q].plines
                    \o SubSeq(readlines(store), Len(procs[q].plines) + 1,
                              Len(readlines(store))))
    /\ SharedStep(q, [procs[q] EXCEPT !.pc = "patch", !.bi = @ + 1,
                                      !.plines = <<>>,
                                      !.overwritten = store])

\* the lines read are written back over the file
ProcPatchWrite(q) ==
    /\ procs[q].pc = "patch_write"
    /\ store' = writelines(procs[q].plines)
    /\ SharedStep(q, [procs[q] EXCEPT !.pc = "patch", !.bi = @ + 1,
                                      !.plines = <<>>,
                                      !.overwritten = store])

\* the batch is patched: back to the caller
ProcBatchDone(q) ==
    /\ procs[q].pc = "patch"
    /\ procs[q].bi > Len(procs[q].todo)
    /\ SharedStep(q, [procs[q] EXCEPT !.pc = procs[q].ret, !.todo = <<>>,
                                      !.bi = 0, !.ret = "none"])
    /\ UNCHANGED store

ProcNext(q) ==
    \/ ProcStart(q) \/ ProcSkip(q) \/ ProcSample(q) \/ ProcAppend(q)
    \/ ProcLoopEnd(q) \/ ProcMissing(q) \/ ProcPatchRead(q)
    \/ ProcPatchWrite(q) \/ ProcBatchDone(q)

NextShared == \E q \in Procs : ProcNext(q)

SpecShared == InitShared /\ [][NextShared]_vars

(***************************************************************************)
(* The MCQA option preparation on its own: any row, any outcome of the     *)
(* shuffle, and the row saved with the options and the letter it returned. *)
(***************************************************************************)
\* every outcome of random.shuffle on five options
AllShuffles ==
    {perm \in [1..5 -> 1..5] : \A a, b \in 1..5 : perm[a] = perm[b] => a = b}

\* the rows of the datasets, and one whose first negative narrative equals
\* the positive one
McqaRows ==
    SampleValues("mcqa") \cup
    {[id |-> <<"3">>, text |-> Text1, pos_en |-> <<"p">>,
      neg_en |-> <<<<"p">>, <<"n2">>, <<"n3">>, <<"n4">>>>]}

InitOptions ==
    /\ task = "mcqa"
    /\ dataset \in Datasets(task)
    /\ store \in {NoFile, <<>>}
    /\ errlog = <<>>
    /\ pc = "options" /\ i = 0 /\ exist_ids = {} /\ cur = <<>>
    /\ write_header = FALSE /\ missing = <<>> /\ mi = 0 /\ pending = <<>>
    /\ NoBatch
    /\ NoCall
    /\ run = 0
    /\ status = [p \in 1..NumSamples |-> "pending"]
    /\ sent = {} /\ validated = {} /\ appended = {} /\ nappend = 0
    /\ start_store = NoFile
    /\ prev = "none"
    /\ eval_only = FALSE
    /\ prompt_version = "v1_en" /\ evaluation_version = "v1_en"
    /\ NoOp

\* one iteration of the sample loop for a row: the options are prepared and
\* the row is saved with them, the letter and the prediction
PrepareAndSave ==
    /\ pc = "options"
    /\ op = "none"
    /\ \E row \in McqaRows, perm \in AllShuffles, prediction \in MCQA_LETTERS :
          LET o == prepare_options_easy(row, perm)
          IN  /\ cur' = o
              /\ op_arg' = [row |-> row, perm |-> perm]
              /\ line' = mcqa_line(row, o.options, o.correct_answer,
                                   prediction)
              /\ store' = save_result_easy(store, row, o.options,
                                           o.correct_answer, prediction)
    /\ op' = "append"
    /\ before' = store
    /\ nops' = nops + 1
    /\ UNCHANGED <<argv, errlog, narr, pc, i, exist_ids, callv, hist, procs>>

NextOptions == PrepareAndSave

SpecOptions == InitOptions /\ [][NextOptions]_vars

(***************************************************************************)
(* Runs in which an exception is raised that no except clause of the loop  *)
(* catches: the backend fails with an error other than the three caught    *)
(* kinds, or a detection sample carries a label other than 0 and 1, for    *)
(* which convert_label raises ValueError outside any try block.  The       *)
(* exception leaves main(); the next step is a new invocation.             *)
(***************************************************************************)
\* a backend error no retry function catches
OtherErrors == {"ConnectionError"}

\* a detection sample whose label convert_label does not know
UnknownLabelSample == [text |-> <<"t3">>, label |-> 2]

InitCrash ==
    /\ task \in Tasks
    /\ dataset \in [1..NumSamples ->
                       IF task = "detection"
                       THEN SampleValues(task) \cup {UnknownLabelSample}
                       ELSE SampleValues(task)]
    /\ store = NoFile
    /\ errlog = <<>>
    /\ pc = "idle" /\ i = 0 /\ exist_ids = {} /\ cur = <<>>
    /\ write_header = FALSE /\ missing = <<>> /\ mi = 0 /\ pending = <<>>
    /\ NoBatch
    /\ NoCall
    /\ run = 0
    /\ status = [p \in 1..NumSamples |-> "pending"]
    /\ sent = {} /\ validated = {} /\ appended = {} /\ nappend = 0
    /\ start_store = NoFile
    /\ prev = "none"
    /\ eval_only = FALSE
    /\ prompt_version = "v1_en" /\ evaluation_version = "v1_en"
    /\ NoOp

\* a faulty loop, to test UncaughtEndsRun: the sample whose label is not
\* known is skipped and the loop goes on
SampleRaisesSkipped ==
    /\ pc = "loop"
    /\ i <= NumSamples
    /\ task = "detection"
    /\ SampleId(task, dataset[i]) \notin exist_ids
    /\ dataset[i].label \notin {0, 1}
    /\ i' = i + 1
    /\ UNCHANGED <<opv, argv, files, narr, pc, exist_ids, cur, callv, hist>>

\* detection: convert_label raises ValueError for the label of a new sample
SampleRaises ==
    /\ pc = "loop"
    /\ i <= NumSamples
    /\ task = "detection"
    /\ SampleId(task, dataset[i]) \notin exist_ids
    /\ dataset[i].label \notin {0, 1}
    /\ pc' = "crashed"
    /\ UNCHANGED <<opv, argv, files, narr, i, exist_ids, cur, callv, hist>>

\* the backend raises an error the except clause of the retry function does
\* not name: it leaves the function and the loop
CallRaises ==
    /\ pc = "call"
    /\ phase = "calling"
    /\ retry_count < max_retries
    /\ \E e \in OtherErrors : last_out' = Raise(e)
    /\ calls' = calls + 1
    /\ sent' = sent \cup {i}
    /\ pc' = "crashed"
    /\ fn' = "none" /\ max_retries' = 0 /\ retry_count' = 0
    /\ phase' = "none" /\ result' = None /\ cur_id' = <<>>
    /\ UNCHANGED <<opv, argv, files, narr, i, exist_ids, cur, run, status,
                   validated, appended, nappend, start_store, prev,
                   eval_only>>

NextCrash ==
    \/ StartRun \/ LoopEnd \/ SkipSample \/ BeginSample
    \/ SampleRaises \/ CallAttempt \/ CallRaises
    \/ SampleFailed \/ BeginJudge
    \/ OpenStore \/ WriteRecord
    \/ RestBatch \/ MissingBatch \/ BertScore \/ BatchDone
    \/ PatchRead \/ PatchOpen \/ PatchWrite
    \/ Metrics

SpecCrash == InitCrash /\ [][NextCrash]_vars

(***************************************************************************)
(* The patch of one result on its own, on stores whose ids are made of     *)
(* several characters: an id may be the beginning of another one, may end  *)
(* another one, and may be the text of a row.                              *)
(***************************************************************************)
\* ids "1", "10" and "01", and "0", which no row has
PatchIds == {<<"1">>, <<"1", "0">>, <<"0", "1">>, <<"0">>}

\* rows of the store, with and without scores
PatchRows ==
    {result_row(with_scores(
         EvaluationResult(id, text, <<"ref">>, <<"c">>, <<"4">>), b, b, b)) :
       id \in PatchIds \ {<<"0">>}, text \in {<<"1">>}, b \in {None, <<"0.0">>}}

PatchFiles ==
    UNION {{HEADER \o <<NL>>
              \o writelines([k \in 1..n |-> rows[k] \o <<NL>>]) :
               rows \in [1..n -> PatchRows]} : n \in 0..MaxLines}

InitPatch ==
    /\ task = "narrative"
    /\ dataset \in Datasets(task)
    /\ store \in PatchFiles
    /\ errlog = <<>>
    /\ pc = "patching" /\ i = 0 /\ exist_ids = {} /\ cur = <<>>
    /\ write_header = FALSE /\ missing = <<>> /\ mi = 0 /\ pending = <<>>
    /\ NoBatch
    /\ NoCall
    /\ run = 0
    /\ status = [p \in 1..NumSamples |-> "pending"]
    /\ sent = {} /\ validated = {} /\ appended = {} /\ nappend = 0
    /\ start_store = NoFile
    /\ prev = "none"
    /\ eval_only = FALSE
    /\ prompt_version = "v1_en" /\ evaluation_version = "v1_en"
    /\ NoOp

\* the body of the loop of update_results_with_bertscore for one result
update_one_result ==
    /\ pc = "patching"
    /\ op = "none"
    /\ \E id \in PatchIds :
          LET r == with_scores(
                      EvaluationResult(id, <<"1">>, <<"ref">>, <<"c">>, None),
                      <<"0.9">>, <<"0.9">>, <<"0.9">>)
          IN  /\ op_arg' = r
              /\ store' = patch_result(store, r)
    /\ op' = "patch"
    /\ before' = store
    /\ line' = <<>>
    /\ nops' = nops + 1
    /\ UNCHANGED <<argv, errlog, narr, loopv, callv, hist, procs>>

NextPatch == update_one_result

SpecPatch == InitPatch /\ [][NextPatch]_vars

(***************************************************************************)
(* What the properties speak of.                                           *)
(***************************************************************************)
\* the columns of a row of each task
NumColumns(t) ==
    CASE t = "detection" -> 5 [] t = "mcqa" -> 9 [] t = "tagging" -> 5
      [] t = "narrative" -> 8

\* the lines of a file without their terminator, the narrative header left
\* out
DataLines(t, file) ==
    IF ~exists(file) THEN <<>>
    ELSE LET lines == readlines(file)
             body(l) == IF l # <<>> /\ l[Len(l)] = NL
                        THEN SubSeq(l, 1, Len(l) - 1) ELSE l
         IN  SelectSeq([k \in DOMAIN lines |-> body(lines[k])],
                       LAMBDA l : ~(t = "narrative" /\ l = HEADER))

FirstField(l) == split(l, TAB)[1]

\* the number of rows whose first column is id
RowCount(t, file, id) ==
    LET rows == DataLines(t, file)
    IN  Cardinality({k \in DOMAIN rows : FirstField(rows[k]) = id})

\* the ids of the rows of a file
RowIds(t, file) ==
    LET rows == DataLines(t, file)
    IN  {FirstField(rows[k]) : k \in {j \in DOMAIN rows : rows[j] # <<>>}}

\* the ids of the rows that are complete: all columns and the newline
CompleteRowIds(t, file) ==
    IF ~exists(file) THEN {}
    ELSE LET lines == readlines(file)
         IN  {FirstField(lines[k]) :
                k \in {j \in DOMAIN lines :
                         /\ lines[j][Len(lines[j])] = NL
                         /\ Len(split(lines[j], TAB)) = NumColumns(t)
                         /\ ~(t = "narrative" /\ lines[j] = HEADER \o <<NL>>)}}

\* the ids the dedup index of a task is built from
LoadIds(t, file) ==
    IF t = "narrative" THEN get_processed_ids(file)
    ELSE load_existing_ids(file)

IdOf(p) == SampleId(task, dataset[p])

Positions == 1..NumSamples

(***************************************************************************)
(* C1: at every point of every run, for every task, at most one row of    *)
(* the store carries a given id in its first column, also when the        *)
(* dataset holds the same id or the same text twice.                      *)
(***************************************************************************)
AtMostOneRowPerId ==
    \A p \in Positions : RowCount(task, store, IdOf(p)) <= 1

(***************************************************************************)
(* C2: a run that follows a run in which every sample was written, with   *)
(* the same configuration and the same store, sends nothing to the        *)
(* backend, appends no row, and ends with exactly one row per dataset id. *)
(***************************************************************************)
RerunIsIdempotent ==
    (run >= 2 /\ prev = "complete") =>
        /\ sent = {}
        /\ nappend = 0
        /\ pc = "done" =>
             \A p \in Positions : RowCount(task, store, IdOf(p)) = 1

(***************************************************************************)
(* C3: a run restarted after a kill sends no backend request for a sample *)
(* whose complete row is in the store it starts from, and by its end has  *)
(* attempted every sample that had no row in that store.                  *)
(***************************************************************************)
RestartResumes ==
    (run >= 2 /\ prev = "killed") =>
        /\ \A p \in sent : IdOf(p) \notin CompleteRowIds(task, start_store)
        /\ pc \in {"metrics", "done", "crashed"} =>
             \A p \in Positions :
                 IdOf(p) \notin RowIds(task, start_store) =>
                     \E q \in Positions :
                         /\ IdOf(q) = IdOf(p)
                         /\ status[q] \in {"written", "failed"}

(***************************************************************************)
(* C5: whenever no write to the store is under way, loading the ids of    *)
(* the store gives exactly the set of ids that were appended to it; a     *)
(* patch rewrite appends nothing, so it leaves the loaded set as it was   *)
(* (the header row of the narrative store is no id).                      *)
(***************************************************************************)
LoadedIdsAreAppendedIds ==
    pc \notin {"write", "patch_write"} =>
        LoadIds(task, store) = appended

\* a backend outcome that is a response meeting the rule of the function
ValidReply(f, out) ==
    /\ out.kind = "response"
    /\ CASE f = "classify_text" ->
              out.answer \in {<<"Drivelology">>, <<"non-Drivelology">>}
         [] f = "mcqa_generate_prediction" ->
              \E letter \in {"A", "B", "C", "D", "E"} :
                  upper(strip(out.answer)) = <<letter>>
         [] f = "tagging_generate_prediction" ->
              LET items == split(out.answer, COMMA)
              IN  \A k \in DOMAIN items :
                      lower(strip(items[k])) \in
                          {<<"inversion">>, <<"wordplay">>, <<"switchbait">>,
                           <<"paradox">>, <<"misdirection">>}
         [] f = "generate_narrative" ->
              \E k \in DOMAIN out.answer : out.answer[k] \notin Whitespace
         [] f = "evaluate_with_geval" -> TRUE

\* what the function is to return for a valid response
ValidResult(f, out) ==
    CASE f \in {"classify_text", "tagging_generate_prediction"} ->
            <<out.answer, out.reason>>
      [] f = "mcqa_generate_prediction" -> upper(strip(out.answer))
      [] f = "generate_narrative" -> collapse_ws(strip(out.answer))
      [] f = "evaluate_with_geval" -> out.answer

(***************************************************************************)
(* C6: for every max_retries >= 1 and every k < max_retries, a backend    *)
(* that fails on the first k calls and then gives a valid response makes  *)
(* the call function return that response after exactly k+1 calls, with   *)
(* no call after it: while the function is still calling every call so    *)
(* far has failed and was counted, and a valid response ends the calls    *)
(* with its value.                                                        *)
(***************************************************************************)
RetrySuccess ==
    /\ phase = "calling" =>
          /\ calls = retry_count
          /\ calls > 0 => ~ValidReply(fn, last_out)
    /\ (calls > 0 /\ ValidReply(fn, last_out)) =>
          /\ phase = "returned"
          /\ result = ValidResult(fn, last_out)
          /\ calls <= max_retries
    /\ (phase = "calling" /\ calls < max_retries) => ENABLED AnyCallAttempt

RetrySuccessWitness ==
    /\ phase = "returned"
    /\ ValidReply(fn, last_out)
    /\ calls = max_retries
    /\ calls >= 3

(***************************************************************************)
(* C7: when every backend call fails, the call function returns the       *)
(* failure value after exactly max_retries calls, for every max_retries   *)
(* from 0 up; no execution makes more than max_retries calls.             *)
(***************************************************************************)
RetryExhaustion ==
    /\ calls <= max_retries
    /\ (phase = "returned" /\ (calls = 0 \/ ~ValidReply(fn, last_out))) =>
          /\ result \in {None, <<None, None>>}
          /\ result = IF fn \in {"classify_text",
                                 "tagging_generate_prediction"}
                      THEN <<None, None>> ELSE None
          /\ calls = max_retries

RetryExhaustionWitness ==
    /\ phase = "returned"
    /\ calls = max_retries
    /\ calls >= 3
    /\ ~ValidReply(fn, last_out)
    /\ result \in {None, <<None, None>>}

\* the retry function of the sample has returned its failure value
SampleCallFailed ==
    /\ pc = "call"
    /\ phase = "returned"
    /\ fn # "evaluate_with_geval"
    /\ result \in {None, <<None, None>>}

(***************************************************************************)
(* C8: a sample whose call gave up after its retries never aborts the     *)
(* run: the step that follows the failure goes on to the next sample and  *)
(* leaves the store as it was, by the end of the loop every sample is     *)
(* skipped, written or failed, and the run ends by its metrics step       *)
(* without an exception.                                                  *)
(***************************************************************************)
FailureIsolation ==
    /\ [][(SampleCallFailed /\ pc' # "idle") =>
             /\ pc' = "loop"
             /\ i' = i + 1
             /\ status' = [status EXCEPT ![i] = "failed"]
             /\ store' = store]_vars
    /\ [](pc \in {"metrics", "done", "crashed"} =>
             \A p \in Positions :
                 status[p] \in {"skipped", "written", "failed"})
    /\ [][(pc' = "done" /\ pc # "done") => pc = "metrics"]_vars
    /\ [](pc # "crashed")

(***************************************************************************)
(* C9: a sample that ends FAILED is not recorded: the step that fails it  *)
(* writes nothing, the rows a run appends are those of its WRITTEN        *)
(* samples, a row with id X is in the store only if some run obtained a   *)
(* validated response for X, and within a run WRITTEN and FAILED are      *)
(* final.  The rows of the store have validated ids in the first state,   *)
(* and every step that changes the store leaves it so: hence in every     *)
(* state.                                                                 *)
(***************************************************************************)
FailedNotStored ==
    /\ RowIds(task, store) \subseteq validated
    /\ [][/\ validated \subseteq validated'
          /\ store' # store => RowIds(task, store') \subseteq validated']_vars
    /\ [](nappend = Cardinality({p \in Positions : status[p] = "written"}))
    /\ [][(\E p \in Positions : status'[p] = "failed" /\ status[p] # "failed")
             => (store' = store /\ appended' = appended)]_vars
    /\ [][\A p \in Positions :
             (status[p] \in {"written", "failed"} /\ run' = run
                 /\ pc' # "idle")
             => status'[p] = status[p]]_vars

FailedNotStoredWitness ==
    /\ pc = "done"
    /\ \E p, q \in Positions :
          /\ status[p] = "failed"
          /\ IdOf(p) \notin RowIds(task, store)
          /\ status[q] = "written"
          /\ IdOf(q) \in RowIds(task, store)

\* the id is the first column of no line of the file
MatchesNoLine(file, id) ==
    \/ ~exists(file)
    \/ LET lines == readlines(file)
       IN  \A k \in DOMAIN lines : FirstField(lines[k]) # id

\* the file after the append of the full record, eight columns in one line
WithFullRecord(file, rec) ==
    (IF exists(file) THEN file ELSE <<>>)
        \o join(<<rec.id, sanitize_text(rec.text),
                  sanitize_text(rec.reference),
                  sanitize_text(rec.candidate),
                  opt_str(rec.geval_score), rec.bert_precision,
                  rec.bert_recall, rec.bert_f1>>, <<TAB>>)
        \o <<NL>>

(***************************************************************************)
(* C4: in every state of the store, the file missing included, the patch  *)
(* of a record whose id matches no line is never fatal, changes no        *)
(* existing line, and leaves the store that the append of the full        *)
(* record, all eight columns, gives.                                      *)
(***************************************************************************)
PatchFallbackLaw ==
    (op = "patch" /\ MatchesNoLine(before, op_arg.id)) =>
        /\ store = WithFullRecord(before, op_arg)
        /\ exists(before) => SubSeq(store, 1, Len(before)) = before

\* a line with the columns of its task and no separator inside a field
WellFormedLine(t, l) ==
    /\ \A k \in DOMAIN l : l[k] \notin {NL, CR}
    /\ Cardinality({k \in DOMAIN l : l[k] = TAB}) = NumColumns(t) - 1

(***************************************************************************)
(* C10: every line appended to a store has the columns of its task and    *)
(* no tab, newline or carriage return inside a field, for every sample    *)
(* and every response that passed validation.                             *)
(***************************************************************************)
WellFormedRows ==
    op = "append" => WellFormedLine(task, line)

\* the last column of a line
LastField(l) == LET parts == split(l, TAB) IN parts[Len(parts)]

\* the labels a prediction of the task may be
LabelSet(t) ==
    IF t = "detection" THEN {<<"Drivelology">>, <<"non-Drivelology">>}
    ELSE {<<"A">>, <<"B">>, <<"C">>, <<"D">>, <<"E">>}

\* every row of the file carries a label of the task as its prediction
PredictionsInDomain(t, file) ==
    LET rows == DataLines(t, file)
    IN  \A k \in DOMAIN rows :
            rows[k] # <<>> => LastField(rows[k]) \in LabelSet(t)

\* the step is a backend call answered by a response outside the label set
AnswerOutsideDomain ==
    /\ pc = "call"
    /\ fn \in {"classify_text", "mcqa_generate_prediction"}
    /\ calls' = calls + 1
    /\ last_out'.kind = "response"
    /\ ~ValidReply(fn, last_out')

(***************************************************************************)
(* C11: every row of the detection store has "Drivelology" or             *)
(* "non-Drivelology" as its prediction and every row of the MCQA store a  *)
(* letter from A to E; a backend answer outside the set is never written  *)
(* and counts as a failed attempt: it is counted as a retry or ends the   *)
(* call with the failure value.                                           *)
(***************************************************************************)
DomainValidation ==
    /\ task \in {"detection", "mcqa"} => PredictionsInDomain(task, store)
    /\ [][(task \in {"detection", "mcqa"} /\ store' # store)
             => PredictionsInDomain(task, store')]_vars
    /\ [][AnswerOutsideDomain =>
             /\ store' = store
             /\ validated' = validated
             /\ \/ phase' = "calling" /\ retry_count' = retry_count + 1
                \/ phase' = "returned" /\ result' \in {None, <<None, None>>}]_vars

DomainValidationWitness ==
    /\ task \in {"detection", "mcqa"}
    /\ RowIds(task, store) # {}
    /\ pc = "call"
    /\ phase = "calling"
    /\ retry_count >= 1
    /\ last_out.kind = "response"
    /\ ~ValidReply(fn, last_out)

\* the categories an answer names: its items, trimmed and in lower case
NormalizedSet(answer) ==
    LET items == split(answer, COMMA)
    IN  {lower(strip(items[k])) : k \in DOMAIN items}

\* the tagging function returns the answer of the response
TaggingAccepts(answer) ==
    TryBody("tagging_generate_prediction", Response(answer, <<"r">>)).raised
        = ""

(***************************************************************************)
(* C12: a tagging answer is accepted if and only if each of its           *)
(* comma-separated items, trimmed and lower-cased, is one of the five     *)
(* categories: "invention", "" and "inversion," are rejected and          *)
(* "inversion, WORDPLAY" is accepted; and for the row appended for an     *)
(* accepted answer, the vector the metrics build from the row is the set  *)
(* of lower-case categories the answer names.                             *)
(***************************************************************************)
TaggingNormalization ==
    /\ \A out \in AnyBackendOutcomes("tagging_generate_prediction") :
          out.kind = "response" =>
              (TaggingAccepts(out.answer) <=>
                  NormalizedSet(out.answer) \subseteq
                      {<<"inversion">>, <<"wordplay">>, <<"switchbait">>,
                       <<"paradox">>, <<"misdirection">>})
    /\ ~TaggingAccepts(<<"invention">>)
    /\ ~TaggingAccepts(<<>>)
    /\ ~TaggingAccepts(<<"inversion", COMMA>>)
    /\ TaggingAccepts(<<"inversion", COMMA, SP, "WORDPLAY">>)
    /\ NormalizedSet(<<"inversion", COMMA, SP, "WORDPLAY">>) =
          {<<"inversion">>, <<"wordplay">>}
    /\ (op = "append" /\ task = "tagging") =>
          LET vectors == tagging_vectors(store)
          IN  /\ vectors # <<>>
              /\ vectors[Len(vectors)].y_pred = NormalizedSet(op_arg[1])

\* the versions of the invocation are registered for its task
VersionsRegistered ==
    /\ prompt_version \in
          {"v1_en", "v2_en", "v3_en", "v1_zh_tw", "v2_zh_tw", "v3_zh_tw"}
    /\ task = "narrative" => evaluation_version \in {"v1_en", "v1_zh_tw"}

(***************************************************************************)
(* C13: every invocation of every entry point, eval-only included, with   *)
(* an unregistered prompt version (generation or evaluation version for   *)
(* the narrative task) ends in the "not found" error at startup: it       *)
(* leaves the store as it was, no sample is sent to the backend, and the  *)
(* run never reaches the sample loop, a patch or the metrics.             *)
(***************************************************************************)
TemplateValidation ==
    /\ [][(run' = run + 1 /\ ~VersionsRegistered) =>
             (pc' = "error" /\ store' = store)]_vars
    /\ [](~VersionsRegistered =>
             /\ pc \in {"idle", "error"}
             /\ sent = {}
             /\ calls = 0
             /\ store = NoFile)

\* the three similarity columns of a row hold numbers
ScoresFilled(row) ==
    LET parts == split(row, TAB)
    IN  /\ Len(parts) >= 8
        /\ \A c \in 6..8 : is_float(parts[c])

\* the ids of the records of the narrative store that lack a similarity
\* score, and of those that have all three
NeedScoreIds(file) ==
    LET rows == DataLines("narrative", file)
    IN  {FirstField(rows[k]) :
            k \in {j \in DOMAIN rows :
                      rows[j] # <<>> /\ ~ScoresFilled(rows[j])}}

FilledIds(file) ==
    LET rows == DataLines("narrative", file)
    IN  {FirstField(rows[k]) :
            k \in {j \in DOMAIN rows : ScoresFilled(rows[j])}}

(***************************************************************************)
(* C14: when a narrative run starts, full or eval-only, every record of   *)
(* the store with a similarity field empty or unparseable is among the    *)
(* records the run puts in its similarity batches, whichever run appended *)
(* it and however that run ended; and a record whose three similarity     *)
(* fields are filled is never patched again.                              *)
(***************************************************************************)
MissingScoresBatched ==
    /\ [][(task = "narrative" /\ run' = run + 1 /\ pc' # "error") =>
             NeedScoreIds(store) \subseteq
                 {missing'[k].id : k \in DOMAIN missing'}]_vars
    /\ [][(pc = "patch" /\ pc' = "patch_open") =>
             batch[bi].id \notin FilledIds(store)]_vars

\* the columns of a line, its terminator left out
Columns(l) ==
    split(IF l # <<>> /\ l[Len(l)] = NL THEN SubSeq(l, 1, Len(l) - 1) ELSE l,
          TAB)

\* the first line of a file whose first column is id, 0 when there is none
RECURSIVE RowOf(_, _, _)
RowOf(lines, id, j) ==
    IF j > Len(lines) THEN 0
    ELSE IF Len(Columns(lines[j])) >= 2 /\ Columns(lines[j])[1] = id THEN j
    ELSE RowOf(lines, id, j + 1)

(***************************************************************************)
(* C15: the patch of a record whose id is the first column of a row       *)
(* changes columns 6 to 8 of that row and nothing else: the file keeps    *)
(* its number of lines and their order, the header and every other row    *)
(* are as before, the row has eight columns with columns 1 to 5 as before *)
(* (a short row is padded with empty columns), and its last three columns *)
(* are the numbers of the patch.                                          *)
(***************************************************************************)
PatchFrame ==
    (op = "patch" /\ exists(before)
        /\ RowOf(readlines(before), op_arg.id, 1) # 0) =>
        LET old == readlines(before)
            new == readlines(store)
            j == RowOf(old, op_arg.id, 1)
            was == Columns(old[j])
            now == Columns(new[j])
        IN  /\ Len(new) = Len(old)
            /\ \A k \in DOMAIN old : k # j => new[k] = old[k]
            /\ Len(now) = 8
            /\ \A c \in 1..5 :
                  now[c] = IF c <= Len(was) THEN was[c] ELSE <<>>
            /\ \A c \in 6..8 : is_float(now[c])
            /\ now[6] = op_arg.bert_precision
            /\ now[7] = op_arg.bert_recall
            /\ now[8] = op_arg.bert_f1

PatchFrameWitness ==
    /\ op = "patch"
    /\ exists(before)
    /\ Len(readlines(before)) >= 3
    /\ RowOf(readlines(before), op_arg.id, 1) = 3
    /\ store # before
    /\ Columns(readlines(store)[3])[8] = <<"0.9">>

(***************************************************************************)
(* C16: an invocation with --eval_only, of any of the four entry points   *)
(* and with the store file present or absent, sends no sample to the      *)
(* backend, makes no backend call, appends no record, and leaves the      *)
(* store as it is: it only reads it.                                      *)
(***************************************************************************)
EvalOnlyReadsOnly ==
    /\ [](eval_only => (sent = {} /\ calls = 0 /\ nappend = 0))
    /\ [][eval_only => (store' = store /\ appended' = appended)]_vars

\* the file holds whole lines only: it is missing or empty, or it ends with
\* a newline and every line has the columns of the task
CompleteLines(t, file) ==
    \/ ~exists(file)
    \/ file = <<>>
    \/ /\ file[Len(file)] = NL
       /\ LET lines == readlines(file)
          IN  \A k \in DOMAIN lines :
                  Len(Columns(lines[k])) = NumColumns(t)

(***************************************************************************)
(* C17: whatever the point at which the process is killed, the store      *)
(* holds no partially written record: every line of the store has all the *)
(* columns of its task and its newline, in the first state and after      *)
(* every step that changes the store; and the step that writes a record   *)
(* adds it to the open file as whole lines, in one write.                 *)
(***************************************************************************)
LineAtomicAppend ==
    /\ CompleteLines(task, store)
    /\ [][store' # store => CompleteLines(task, store')]_vars
    /\ [][(pc = "write" /\ pc' # "idle") =>
             /\ Len(store') > Len(store)
             /\ SubSeq(store', 1, Len(store)) = store
             /\ CompleteLines(task,
                              SubSeq(store', Len(store) + 1, Len(store')))]_vars

LineAtomicAppendWitness ==
    /\ prev = "killed"
    /\ pc = "write"
    /\ RowIds(task, store) # {}
    /\ RowIds(task, start_store) # RowIds(task, store)

(***************************************************************************)
(* C18: no record is ever deleted from the store: whenever no rewrite of  *)
(* the file is under way, every id that was appended to the store, in     *)
(* this run or an earlier one, is still the first column of one of its    *)
(* rows; the header creation of the first narrative append and the        *)
(* whole-file rewrite of a patch remove none.                             *)
(***************************************************************************)
RecordsNeverDeleted ==
    pc # "patch_write" => appended \subseteq RowIds(task, store)

(***************************************************************************)
(* C19: in every state of every narrative run, after kills and restarts   *)
(* too, a store file that holds any line begins with the header row, so   *)
(* no record is on the first line, which the loaders skip.                *)
(***************************************************************************)
HeaderIsFirstLine ==
    (task = "narrative" /\ exists(store) /\ store # <<>>) =>
        startswith(store, HEADER \o <<NL>>)

\* the line holds nothing but whitespace
Blank(l) == \A k \in DOMAIN l : l[k] \in {SP, TAB, NL, CR}

\* the (ground truth, prediction) pairs of the lines of a file that have
\* the columns the aggregator of the task asks for, in the order of the
\* lines
ExpectedPairs(t, file) ==
    LET lines == readlines(file)
        enough(l) == Len(Columns(l)) >= (IF t = "mcqa" THEN 8 ELSE 5)
        counted == SelectSeq(lines, LAMBDA l : ~Blank(l) /\ enough(l))
    IN  [k \in DOMAIN counted |->
            <<Columns(counted[k])[Len(Columns(counted[k])) - 1],
              Columns(counted[k])[Len(Columns(counted[k]))]>>]

(***************************************************************************)
(* C20: on a store file with malformed content the metrics aggregator of  *)
(* detection, MCQA and tagging does not raise, leaves the file as it is,  *)
(* and returns one (ground truth, prediction) pair for each line that has *)
(* the columns of its task (5, 8 for MCQA) and none for a line with fewer *)
(* columns, an empty line or a blank line.                                *)
(***************************************************************************)
MetricsSkipMalformed ==
    (op = "metrics" /\ exists(before)) =>
        /\ op_arg.raised = ""
        /\ op_arg.value = ExpectedPairs(task, before)
        /\ store = before

MetricsSkipMalformedWitness ==
    /\ op = "metrics"
    /\ exists(before)
    /\ \E l \in Range(readlines(before)) : Blank(l)
    /\ \E l \in Range(readlines(before)) :
          ~Blank(l) /\ Len(Columns(l)) < 5
    /\ Len(op_arg.value) = 1
    /\ Len(readlines(before)) = 3

(***************************************************************************)
(* C21: the detection accuracy is the number of counted rows whose ground *)
(* truth (last column but one) equals the prediction (last column) over   *)
(* the number of counted rows, and total_samples is that number; the      *)
(* store with the rows (Drivelology, Drivelology) and (non-Drivelology,   *)
(* Drivelology) gives 1 of 2, accuracy 0.5, total_samples 2.              *)
(***************************************************************************)
DetectionAccuracy ==
    (op = "metrics" /\ task = "detection" /\ exists(before)
        /\ ExpectedPairs(task, before) # <<>>) =>
        LET rows == ExpectedPairs(task, before)
            correct == Cardinality({k \in DOMAIN rows :
                                      rows[k][1] = rows[k][2]})
        IN  /\ op_arg.raised = ""
            /\ op_arg.report.total_samples = Len(rows)
            /\ op_arg.report.accuracy = <<correct, Len(rows)>>
            /\ rows = <<<<<<"Drivelology">>, <<"Drivelology">>>>,
                        <<<<"non-Drivelology">>, <<"Drivelology">>>>>> =>
                  /\ op_arg.report.accuracy = <<1, 2>>
                  /\ 2 * op_arg.report.accuracy[1] =
                        op_arg.report.accuracy[2]
                  /\ op_arg.report.total_samples = 2

DetectionAccuracyWitness ==
    /\ op = "metrics"
    /\ task = "detection"
    /\ exists(before)
    /\ Len(readlines(before)) = 2
    /\ ExpectedPairs(task, before) =
          <<<<<<"Drivelology">>, <<"Drivelology">>>>,
            <<<<"non-Drivelology">>, <<"Drivelology">>>>>>
    /\ op_arg.report.accuracy = <<1, 2>>

(***************************************************************************)
(* C22: with two runs on the same path nothing keeps them apart.  A run   *)
(* that passed the dedup test appends its row whatever the file holds, so *)
(* a state with two rows of one id is reachable (both runs passed the     *)
(* test before either appended); and the rewrite of the patch step writes *)
(* back exactly the lines the run read, so a row the other run appended   *)
(* between the read and the rewrite is lost.                              *)
(***************************************************************************)
SharedStoreRaces ==
    [][\A q \in Procs :
          /\ (procs[q].pc = "write" /\ procs'[q].pc # "write") =>
                LET id == SampleId(task, dataset[procs[q].i])
                IN  RowCount(task, store', id) =
                       IF procs[q].wh THEN 1
                       ELSE RowCount(task, store, id) + 1
          /\ (procs[q].pc = "patch_write" /\ procs'[q].pc # "patch_write") =>
                /\ store' = writelines(procs[q].plines)
                /\ Len(readlines(store')) = Len(procs[q].plines)]_vars

\* the file a run overwrote held two rows of one id, the second appended by
\* the other run after the read, and the rewrite lost that row
SharedStoreRacesWitness ==
    \E q \in Procs :
        LET id == SampleId(task, dataset[NumSamples])
            old == procs[q].overwritten
        IN  /\ task = "narrative"
            /\ exists(old)
            /\ RowCount(task, old, id) = 2
            /\ RowCount(task, store, id) = 1
            /\ Len(readlines(store)) < Len(readlines(old))
            /\ \A p \in Procs : id \in procs[p].ids

\* the ids of a sequence of results
ResultIds(results) == {results[k].id : k \in DOMAIN results}

\* the store holds a row of the result with its judge score
HasRow(file, rec) ==
    /\ exists(file)
    /\ \E k \in DOMAIN DataLines("narrative", file) :
          LET parts == split(DataLines("narrative", file)[k], TAB)
          IN  /\ Len(parts) >= 5
              /\ parts[1] = rec.id
              /\ parts[5] = opt_str(rec.geval_score)

KillThenScoresFilled ==
    (task = "narrative" /\ pc = "done") => NeedScoreIds(store) = {}

\* the store holds a row of the id whose judge score is empty
UnjudgedRow(file, id) ==
    \E k \in DOMAIN DataLines("narrative", file) :
        LET parts == split(DataLines("narrative", file)[k], TAB)
        IN  Len(parts) >= 5 /\ parts[1] = id /\ parts[5] = <<>>

(***************************************************************************)
(* C25: when the narrative was generated and the judge gave up (score     *)
(* None), the id enters the processed set and the record is appended with *)
(* an empty geval_score; the judge is never called again for an id with   *)
(* such a row; and the patch of the record still fills its three          *)
(* similarity fields.                                                     *)
(***************************************************************************)
JudgeFailureRecorded ==
    [][/\ (pc = "call" /\ fn = "evaluate_with_geval" /\ result = None
              /\ pc' = "write") =>
            /\ cur_id \in exist_ids'
            /\ pending'[Len(pending')].id = cur_id
            /\ pending'[Len(pending')].geval_score = None
       /\ (pc = "write" /\ task = "narrative" /\ pc' # "idle"
              /\ cur.geval_score = None) =>
            UnjudgedRow(store', cur.id)
       /\ (task = "narrative" /\ pc = "patch_write" /\ pc' = "patch"
              /\ batch[bi].geval_score = None) =>
            LET rows == DataLines(task, store')
                j == RowOf(rows, batch[bi].id, 1)
            IN  j # 0 /\ ScoresFilled(rows[j])
       /\ (fn # "evaluate_with_geval" /\ fn' = "evaluate_with_geval") =>
            ~UnjudgedRow(store, cur_id')]_vars

\* the store holds a row of the id with 0.0 in its three similarity columns
ZeroScored(file, id) ==
    \E k \in DOMAIN DataLines("narrative", file) :
        LET parts == split(DataLines("narrative", file)[k], TAB)
        IN  /\ Len(parts) >= 8
            /\ parts[1] = id
            /\ \A c \in 6..8 : parts[c] = <<"0.0">>

(***************************************************************************)
(* C26: when the batch similarity function raises, every record of the    *)
(* batch is patched with 0.0 in its three similarity columns and the run  *)
(* goes on; a record that holds these scores is not among the records a   *)
(* later run loads as missing a score, and is in no batch of a later run. *)
(***************************************************************************)
ScorerFailureZeroed ==
    [][/\ (task = "narrative" /\ pc = "patch_write" /\ pc' = "patch"
              /\ bert = <<"0.0">>) =>
            ZeroScored(store', batch[bi].id)
       /\ (pc = "patch" /\ bert = <<"0.0">>
              /\ pc' \notin {"patch", "patch_open", "idle"}) =>
            /\ pc' = ret
            /\ pc' \in {"loop", "missing"}
       /\ (missing' # missing) =>
            \A k \in DOMAIN missing' :
                \E c \in {missing'[k].bert_precision, missing'[k].bert_recall,
                          missing'[k].bert_f1} : c # <<"0.0">>
       /\ (batch' # batch /\ batch' # <<>>) =>
            \A k \in DOMAIN batch' : ~ZeroScored(store, batch'[k].id)]_vars

\* the number of positions of a sequence that hold x
Count(seq, x) == Cardinality({k \in DOMAIN seq : seq[k] = x})

\* the position a letter designates
PositionOf(letter) == CHOOSE k \in 1..5 : LetterOf(k) = letter

(***************************************************************************)
(* C27: for every row and every outcome of the shuffle the five options   *)
(* are a permutation of the positive narrative and the four negative      *)
(* ones, and the letter returned designates an option equal to the        *)
(* positive narrative; in the stored row the option column the            *)
(* ground-truth letter designates holds the sanitized positive narrative. *)
(***************************************************************************)
OptionsKeepAnswer ==
    op = "append" =>
        LET row == op_arg.row
            all == <<row.pos_en>> \o row.neg_en
            rows == DataLines(task, store)
            stored == Columns(rows[Len(rows)])
        IN  /\ Len(cur.options) = 5
            /\ \A k \in 1..5 : Count(cur.options, all[k]) = Count(all, all[k])
            /\ cur.correct_answer \in MCQA_LETTERS
            /\ cur.options[PositionOf(cur.correct_answer)] = row.pos_en
            /\ Len(stored) = 9
            /\ stored[8] = cur.correct_answer
            /\ stored[2 + PositionOf(stored[8])] = sanitize_text(row.pos_en)

\* the shuffle moved the positive narrative, which holds a newline, to the
\* third place
OptionsKeepAnswerWitness ==
    /\ op = "append"
    /\ pc = "options"
    /\ cur.correct_answer = <<"C">>
    /\ NL \in Range(op_arg.row.pos_en)
    /\ Columns(line)[5] = sanitize_text(op_arg.row.pos_en)
    /\ Columns(line)[5] # op_arg.row.pos_en

(***************************************************************************)
(* C28: a sample that failed has no row in the store and no entry in the  *)
(* dedup index, so every later run that reaches it sends it to the retry  *)
(* function again, with the counter at zero and the full max_retries,     *)
(* until its row is written.  A series of attempts that ends with the     *)
(* failure value made max_retries calls; for MCQA and tagging it appends  *)
(* exactly one line to <store>.errors.log, that of the id, written in the *)
(* handler of the last exception; detection and narrative write no error  *)
(* log.                                                                   *)
(***************************************************************************)
RetriedInLaterRuns ==
    [][/\ (pc = "loop" /\ i <= NumSamples /\ pc' # "idle"
              /\ IdOf(i) \notin RowIds(task, store)) =>
            /\ pc' = "call"
            /\ fn' = FirstCall(task)
            /\ cur_id' = IdOf(i)
            /\ retry_count' = 0 /\ calls' = 0
            /\ max_retries' = DefaultMaxRetries(FirstCall(task))
       /\ (pc = "call" /\ pc' = "loop" /\ status'[i] = "failed") =>
            /\ store' = store
            /\ exist_ids' = exist_ids
            /\ IdOf(i) \notin exist_ids'
       /\ (phase = "calling" /\ phase' = "returned"
              /\ result' = FailureValue(fn)) =>
            /\ calls' = max_retries
            /\ TryBody(fn, last_out').raised \in CaughtExceptions
            /\ errlog' = IF task \in {"mcqa", "tagging"}
                         THEN Append(errlog, cur_id) ELSE errlog
       /\ (errlog' # errlog) =>
            /\ phase = "calling" /\ phase' = "returned"
            /\ result' = FailureValue(fn)
            /\ task \in {"mcqa", "tagging"}]_vars

\* a sample that exhausted its retries in an earlier run, which logged it,
\* is at its first attempt again
RetriedInLaterRunsWitness ==
    /\ task \in {"mcqa", "tagging"}
    /\ prev = "partial"
    /\ pc = "call"
    /\ calls = 0 /\ retry_count = 0
    /\ max_retries = DefaultMaxRetries(FirstCall(task))
    /\ \E k \in DOMAIN errlog : errlog[k] = cur_id
    /\ cur_id \notin RowIds(task, store)

PatchExactId ==
    (op = "patch" /\ pc = "patching") =>
        LET old == readlines(before)
            new == readlines(store)
        IN  /\ Len(new) >= Len(old)
            /\ \A k \in DOMAIN old :
                  new[k] # old[k] =>
                     /\ Columns(old[k])[1] = op_arg.id
                     /\ \A j \in 1..(k - 1) : Columns(old[j])[1] # op_arg.id

\* the patch for id 1 on a store whose rows are those of ids 10, 1 and 1:
\* the second row is rewritten, the first and the third are not
PatchExactIdWitness ==
    /\ op = "patch" /\ pc = "patching"
    /\ op_arg.id = <<"1">>
    /\ Len(readlines(before)) = 4
    /\ Columns(readlines(before)[2])[1] = <<"1", "0">>
    /\ Columns(readlines(before)[3])[1] = <<"1">>
    /\ Columns(readlines(before)[4])[1] = <<"1">>
    /\ readlines(store)[2] = readlines(before)[2]
    /\ readlines(store)[3] # readlines(before)[3]
    /\ readlines(store)[4] = readlines(before)[4]

====
